---- MODULE Spec2Model ----
(***************************************************************************)
(* A model of the failure-handling protocol of self_improvement_protocol.py *)
(* (SelfImprovementProtocol.handle_failure, MultiAgentVerifier,             *)
(* the healing-pattern selector and their collaborators).                   *)
(*                                                                          *)
(* Python strings that take part in substring tests or in str.lower() are   *)
(* sequences of one-character strings; strings that are only compared or    *)
(* used as dictionary keys are TLA+ strings.                                *)
(***************************************************************************)
EXTENDS Integers, Sequences, FiniteSets, TLC

VARIABLES
    debuggerImpl,          \* the object bound to protocol.debugger
    checkImpl,             \* the check functions bound on the verifier: check -> outcome
    failure,               \* the Failure handled by the current handle_failure run
    pc,                    \* position of the handle_failure coroutine
    result,                \* handle_failure's local `result`: failure snapshot and steps
    error,                 \* the exception that ended the run, if any
    stageLog,              \* the collaborators handle_failure has called in this run
    entry,                 \* lengths of the histories when the run started
    fixes,                 \* MCPDebugger.fixes
    agents,                \* MultiAgentVerifier.agents
    verification_results,  \* MultiAgentVerifier.verification_results
    calls,                 \* the verify_change calls: suspended at gather, or ended
    generated_tests,       \* RegressionTestGenerator.generated_tests
    applied_patterns,      \* SelfHealingPatterns.applied_patterns
    test_suites,           \* EvaluationFramework.test_suites
    eval_results,          \* EvaluationFramework.results
    runs,                  \* handle_failure runs started
    directCalls,           \* verify_change calls made directly on the verifier
    history,               \* of every returned run: context, step names, pattern
    selInput,              \* a context handed to the selector on its own
    selOutput,             \* what the selector returned for it
    apply_call,            \* the last apply_pattern call made directly, its outcome
    now,                   \* datetime.now(), in seconds
    breaker,               \* a CircuitBreaker object and the calls awaiting its target
    health,                \* a HealthChecker object, its running check_health and the wrapper's calls
    cache,                 \* a CacheRecovery object and the calls awaiting compute_func
    retry,                 \* a function wrapped by connection_retry and the call of it in progress
    limiter               \* a RateLimiter object and the acquire calls asleep in it

vars == << debuggerImpl, checkImpl, failure, pc, result, error, stageLog, entry,
           fixes, agents, verification_results, calls, generated_tests,
           applied_patterns, test_suites, eval_results, runs, directCalls,
           history, selInput, selOutput, apply_call, now, breaker, health, cache, retry, limiter >>

\* the protocol object and its collaborators
protocolVars ==
    << debuggerImpl, checkImpl, failure, pc, result, error, stageLog, entry,
       fixes, agents, verification_results, calls, generated_tests,
       applied_patterns, test_suites, eval_results, runs, directCalls,
       history, selInput, selOutput, apply_call >>

\* the clock and the objects of the code that the strategies consist of
strategyVars == << now, breaker, health, cache, retry, limiter >>

(***************************************************************************)
(* Bounds of the model.                                                     *)
(***************************************************************************)
\* handle_failure runs started on one protocol object in one behaviour
MaxRuns == 2
\* words joined into an error_type handed to the selector on its own
MaxWords == 2
\* verify_change calls made directly on the verifier in one behaviour
MaxDirectCalls == 1
\* agents registered after _setup_verification_agents
MaxExtraAgents == 1
\* patterns applied by direct apply_pattern calls in one behaviour
MaxApplies == 2
\* run_evaluation calls made directly on the framework in one behaviour
MaxEvaluations == 2
\* seconds that pass in one behaviour
MaxClock == 4
\* the largest failure_threshold a CircuitBreaker is built with
MaxThreshold == 2
\* calls awaiting the target of one strategy object at a time
MaxAwaiting == 2
\* the largest max_attempts a function is wrapped with
MaxAttempts == 3
\* acquire calls made on one RateLimiter in one behaviour
MaxAcquires == 4

(***************************************************************************)
(* String literals of the source, as character sequences.                   *)
(***************************************************************************)
S_empty == <<>>
S_connection == <<"c","o","n","n","e","c","t","i","o","n">>
S_timeout == <<"t","i","m","e","o","u","t">>
S_rate_limit == <<"r","a","t","e","_","l","i","m","i","t">>
S_service_unavailable == <<"s","e","r","v","i","c","e","_","u","n","a","v","a","i","l","a","b","l","e">>
S_cache_miss == <<"c","a","c","h","e","_","m","i","s","s">>
S_authentication == <<"a","u","t","h","e","n","t","i","c","a","t","i","o","n">>
S_code == <<"c","o","d","e">>
S_syntax == <<"s","y","n","t","a","x">>
S_style == <<"s","t","y","l","e">>
S_security == <<"s","e","c","u","r","i","t","y">>
S_permissions == <<"p","e","r","m","i","s","s","i","o","n","s">>
S_performance == <<"p","e","r","f","o","r","m","a","n","c","e">>
S_efficiency == <<"e","f","f","i","c","i","e","n","c","y">>
S_tool_integration == <<"t","o","o","l","_","i","n","t","e","g","r","a","t","i","o","n">>
S_documentation == <<"d","o","c","u","m","e","n","t","a","t","i","o","n">>
\* "TimeoutError: Connection timed out after 30s"
S_main_traceback ==
    <<"T","i","m","e","o","u","t","E","r","r","o","r",":"," ","C","o","n","n","e","c","t","i","o","n"," ","t","i","m","e","d"," ","o","u","t"," ","a","f","t","e","r"," ","3","0","s">>

\* the traceback of the second failure of demonstrate_mcp_debugging
S_demo_auth_traceback ==
    <<"A","u","t","h","e","n","t","i","c","a","t","i","o","n","E","r","r","o","r",":"," ","I","n","v","a","l","i","d"," ","A","P","I"," ","k","e","y">>

(***************************************************************************)
(* Inputs of the model that are not literals of the source.                 *)
(***************************************************************************)
S_code_security == <<"c","o","d","e","_","s","e","c","u","r","i","t","y">>
S_Security == <<"S","e","c","u","r","i","t","y">>
S_syntax_fix == <<"s","y","n","t","a","x","_","f","i","x">>
S_fast_code_security == <<"f","a","s","t","_","c","o","d","e","_","s","e","c","u","r","i","t","y">>
S_unknown_thing == <<"u","n","k","n","o","w","n","_","t","h","i","n","g">>
S_connection_timeout == <<"c","o","n","n","e","c","t","i","o","n","_","t","i","m","e","o","u","t">>
S_rate_limit_exceeded == <<"r","a","t","e","_","l","i","m","i","t","_","e","x","c","e","e","d","e","d">>
S_TimeoutError == <<"T","i","m","e","o","u","t","E","r","r","o","r">>
S_connect == <<"c","o","n","n","e","c","t">>
S_exceeded == <<"e","x","c","e","e","d","e","d">>
S_ErrorColon == <<"E","r","r","o","r",":">>

(***************************************************************************)
(* Python's str.lower() and the `in` operator on strings.                   *)
(***************************************************************************)
UpperLetters == <<"A","B","C","D","E","F","G","H","I","J","K","L","M",
                  "N","O","P","Q","R","S","T","U","V","W","X","Y","Z">>
LowerLetters == <<"a","b","c","d","e","f","g","h","i","j","k","l","m",
                  "n","o","p","q","r","s","t","u","v","w","x","y","z">>

LowerChar(c) ==
    IF \E i \in 1..Len(UpperLetters) : UpperLetters[i] = c
    THEN LowerLetters[CHOOSE i \in 1..Len(UpperLetters) : UpperLetters[i] = c]
    ELSE c

UpperChar(c) ==
    IF \E i \in 1..Len(LowerLetters) : LowerLetters[i] = c
    THEN UpperLetters[CHOOSE i \in 1..Len(LowerLetters) : LowerLetters[i] = c]
    ELSE c

\* s.lower()
Lower(s) == [i \in 1..Len(s) |-> LowerChar(s[i])]

\* s.upper(): used only to build inputs
Upper(s) == [i \in 1..Len(s) |-> UpperChar(s[i])]

\* s.capitalize() restricted to the first letter: used only to build inputs
Capitalized(s) == [i \in 1..Len(s) |-> IF i = 1 THEN UpperChar(s[i]) ELSE s[i]]

\* k in s, for strings k and s
IsSubstring(k, s) ==
    \E i \in 0..(Len(s) - Len(k)) : SubSeq(s, i + 1, i + Len(k)) = k

(***************************************************************************)
(* Values of a context entry: the key is absent, holds a string, or holds   *)
(* a value that is not a string (None, a number, ...).                      *)
(***************************************************************************)
Absent == [k |-> "absent", v |-> <<>>]
NonStr == [k |-> "other", v |-> <<>>]
Str(s) == [k |-> "str", v |-> s]

\* context.get(key, default) for a key whose value, when present, is a string
GetStr(e, default) == IF e.k = "absent" THEN default ELSE e.v

\* Python's None where the other values are TLA+ strings
None == "<None>"

(***************************************************************************)
(* FailureType and Failure.  A Failure is modelled by its type, the context *)
(* entries the protocol reads (error_type, traceback, target,               *)
(* expected_result), resolved and resolution.                               *)
(***************************************************************************)
FailureType ==
    {"mcp_error", "missing_tool", "unclear_docs", "runtime_error", "validation_error"}

\* Failure.to_dict(): a snapshot of the fields at the time of the call
to_dict(f) ==
    [type |-> f.type, context |-> f.context,
     resolved |-> f.resolved, resolution |-> f.resolution]

(***************************************************************************)
(* MCPDebugger.  A fix is the dictionary returned by debug_failure; its     *)
(* code_changes entry has a file and no "type" entry.                       *)
(***************************************************************************)
NoChanges == [k |-> "absent", file |-> "", type |-> Absent]
\* code_changes carrying a "type" entry
ChangesWithKind(file) == [k |-> "dict", file |-> file, type |-> Str(S_code_security)]

Changes(file) == [k |-> "dict", file |-> file, type |-> Absent]
Fix(issue, solution, file) ==
    [issue |-> issue, solution |-> solution, code_changes |-> Changes(file)]

_fix_connection_issue ==
    Fix("Connection failure", "Implemented retry logic with exponential backoff",
        "mcp_connection.py")

_fix_timeout_issue ==
    Fix("Timeout error", "Increased timeout and added configurable settings",
        "mcp_config.py")

_fix_auth_issue ==
    Fix("Authentication failure", "Enhanced credential management and validation",
        "mcp_auth.py")

_analyze_and_fix_error(f) ==
    LET stack_trace == GetStr(f.context.traceback, S_empty)
    IN  Fix(IF IsSubstring(S_ErrorColon, stack_trace)
            THEN "<line of the traceback with Error:>" ELSE "Unknown error",
            "Applied generic error handling", "error_handler.py")

\* the fix _fix_mcp_error selects from the traceback
McpFix(f) ==
    LET error_trace == GetStr(f.context.traceback, S_empty)
    IN  IF IsSubstring(S_connection, Lower(error_trace)) THEN _fix_connection_issue
        ELSE IF IsSubstring(S_timeout, Lower(error_trace)) THEN _fix_timeout_issue
        ELSE IF IsSubstring(S_authentication, Lower(error_trace)) THEN _fix_auth_issue
        ELSE _analyze_and_fix_error(f)

\* error_trace.lower() on a traceback that is not a string raises AttributeError
McpFixRaises(f) == f.context.traceback.k = "other"

_add_missing_tool(f) ==
    Fix("Missing tool: unknown", "Added unknown to MCP", "tools/unknown.py")

_improve_documentation(f) ==
    Fix("Unclear documentation: ", "Tested and improved documentation",
        "docs/improved_docs.md")

\* a generic fix that proposes no code change
_generic_fix_without_changes(f) ==
    [issue |-> "<failure.description>",
     solution |-> "Applied generic error handling and logging",
     code_changes |-> NoChanges]

_generic_fix(f) ==
    Fix("<failure.description>", "Applied generic error handling and logging",
        "generic_fixes.py")

(***************************************************************************)
(* MultiAgentVerifier: pure parts.                                          *)
(***************************************************************************)
Agent(id, caps) == [id |-> id, capabilities |-> caps, status |-> "active"]

\* the registry after SelfImprovementProtocol._setup_verification_agents
DefaultAgents ==
    << Agent("code_agent", <<S_code, S_syntax, S_style>>),
       Agent("security_agent", <<S_security, S_permissions>>),
       Agent("performance_agent", <<S_performance, S_efficiency>>) >>

InSeq(x, s) == \E i \in 1..Len(s) : s[i] = x

\* _can_verify comparing in lower case
_can_verify_ignoring_case(agent, change) ==
    LET change_type == Lower(GetStr(change.type, S_empty))
    IN  \E i \in 1..Len(agent.capabilities) :
            IsSubstring(Lower(agent.capabilities[i]), change_type)

_can_verify(agent, change) ==
    LET change_type == GetStr(change.type, S_empty)
    IN  \E i \in 1..Len(agent.capabilities) :
            IsSubstring(agent.capabilities[i], change_type)

\* _determine_checks with the performance checks put first
_determine_checks_performance_first(agent, change) ==
    (IF InSeq(S_performance, agent.capabilities)
        THEN <<"efficiency", "memory_usage">> ELSE <<>>)
    \o (IF InSeq(S_code, agent.capabilities)
        THEN <<"syntax", "style", "complexity">> ELSE <<>>)
    \o (IF InSeq(S_security, agent.capabilities)
        THEN <<"vulnerabilities", "permissions">> ELSE <<>>)

_determine_checks(agent, change) ==
    (IF InSeq(S_code, agent.capabilities)
        THEN <<"syntax", "style", "complexity">> ELSE <<>>)
    \o (IF InSeq(S_security, agent.capabilities)
        THEN <<"vulnerabilities", "permissions">> ELSE <<>>)
    \o (IF InSeq(S_performance, agent.capabilities)
        THEN <<"efficiency", "memory_usage">> ELSE <<>>)

_create_verification_task(agent, change) ==
    [agent_id |-> agent.id, change |-> change,
     checks |-> _determine_checks(agent, change)]

\* for agent in self.agents: if self._can_verify(agent, change): tasks.append(...)
RECURSIVE AssignTasks(_, _, _)
AssignTasks(agentList, change, i) ==
    IF i > Len(agentList) THEN <<>>
    ELSE (IF _can_verify(agentList[i], change)
          THEN << _create_verification_task(agentList[i], change) >> ELSE <<>>)
         \o AssignTasks(agentList, change, i + 1)

CheckNames ==
    {"syntax", "style", "complexity", "vulnerabilities", "permissions",
     "efficiency", "memory_usage"}

\* the "details" of the built-in _check_* functions
BuiltinDetails(check) ==
    CASE check = "syntax" -> "Syntax valid"
      [] check = "style" -> "Style compliant"
      [] check = "complexity" -> "Complexity acceptable"
      [] check = "vulnerabilities" -> "No vulnerabilities found"
      [] check = "permissions" -> "Permissions appropriate"
      [] check = "efficiency" -> "Efficiency optimal"
      [] check = "memory_usage" -> "Memory usage acceptable"
      [] OTHER -> "Check passed"

\* the built-in _check_* functions: every check passes
BuiltinChecks == [c \in CheckNames |-> "pass"]

\* _perform_check with the check functions bound as impl (check -> outcome)
_perform_check(impl, check_type) ==
    LET outcome == IF check_type \in DOMAIN impl THEN impl[check_type] ELSE "pass"
    IN  CASE outcome = "pass" ->
               [raised |-> FALSE, passed |-> TRUE, details |-> BuiltinDetails(check_type)]
          [] outcome = "fail" ->
               [raised |-> FALSE, passed |-> FALSE, details |-> "failed"]
          [] OTHER ->
               [raised |-> TRUE, passed |-> FALSE, details |-> "check error"]

\* the loop of _execute_verification: a check that raises ends it
RECURSIVE RunChecks(_, _, _, _)
RunChecks(impl, checks, i, acc) ==
    IF i > Len(checks) THEN [raised |-> FALSE, results |-> acc, error |-> ""]
    ELSE LET r == _perform_check(impl, checks[i])
         IN  IF r.raised
             THEN [raised |-> TRUE, results |-> acc, error |-> r.details]
             ELSE RunChecks(impl, checks, i + 1,
                            Append(acc, [check |-> checks[i], passed |-> r.passed,
                                         details |-> r.details]))

\* all(r["passed"] for r in results.values())
\* all() that wants at least one check result
AllPassedOfSome(results) ==
    Len(results) > 0 /\ \A i \in 1..Len(results) : results[i].passed

AllPassed(results) == \A i \in 1..Len(results) : results[i].passed

\* the outcome of one checker task: its result dictionary, or the error raised
_execute_verification(impl, task) ==
    LET run == RunChecks(impl, task.checks, 1, <<>>)
    IN  IF run.raised
        THEN [status |-> "raised", agent_id |-> task.agent_id, results |-> run.results,
              overall |-> FALSE, error |-> run.error]
        ELSE [status |-> "done", agent_id |-> task.agent_id, results |-> run.results,
              overall |-> AllPassed(run.results), error |-> ""]

PendingResult(task) ==
    [status |-> "pending", agent_id |-> task.agent_id, results |-> <<>>,
     overall |-> FALSE, error |-> ""]

\* the issues of one result, in the order of its checks
RECURSIVE IssuesOf(_, _)
IssuesOf(res, i) ==
    IF i > Len(res.results) THEN <<>>
    ELSE (IF ~res.results[i].passed
          THEN << [agent |-> res.agent_id, check |-> res.results[i].check,
                   details |-> res.results[i].details] >>
          ELSE <<>>)
         \o IssuesOf(res, i + 1)

RECURSIVE AllIssues(_, _)
AllIssues(results, i) ==
    IF i > Len(results) THEN <<>>
    ELSE IssuesOf(results[i], 1) \o AllIssues(results, i + 1)

\* sum(1 for r in results if r["overall"])
PassingCount(results) == Cardinality({i \in 1..Len(results) : results[i].overall})

\* Confidence with the registry's size as the denominator
ConfidenceOverRegistry(results) ==
    IF Len(results) > 0
    THEN [num |-> PassingCount(results), den |-> Len(agents)]
    ELSE [num |-> 0, den |-> 1]

\* passed / total as a fraction; the integer 0 when there are no results
Confidence(results) ==
    IF Len(results) > 0
    THEN [num |-> PassingCount(results), den |-> Len(results)]
    ELSE [num |-> 0, den |-> 1]

_aggregate_results(results) ==
    [verified |-> \A i \in 1..Len(results) : results[i].overall,
     agent_count |-> Len(results),
     issues |-> AllIssues(results, 1),
     confidence |-> Confidence(results)]

(***************************************************************************)
(* SelfImprovementProtocol._determine_healing_pattern                       *)
(***************************************************************************)
\* pattern_map with the timeout rule declared before the connection rule
pattern_map_timeout_first ==
    << [key |-> S_timeout, pattern |-> "circuit_breaker"],
       [key |-> S_connection, pattern |-> "connection_retry"],
       [key |-> S_rate_limit, pattern |-> "rate_limiter"],
       [key |-> S_service_unavailable, pattern |-> "fallback"],
       [key |-> S_cache_miss, pattern |-> "cache_recovery"] >>

\* pattern_map with the catalog's health_check as the pattern of a timeout
pattern_map_health_check ==
    << [key |-> S_connection, pattern |-> "connection_retry"],
       [key |-> S_timeout, pattern |-> "health_check"],
       [key |-> S_rate_limit, pattern |-> "rate_limiter"],
       [key |-> S_service_unavailable, pattern |-> "fallback"],
       [key |-> S_cache_miss, pattern |-> "cache_recovery"] >>

pattern_map ==
    << [key |-> S_connection, pattern |-> "connection_retry"],
       [key |-> S_timeout, pattern |-> "circuit_breaker"],
       [key |-> S_rate_limit, pattern |-> "rate_limiter"],
       [key |-> S_service_unavailable, pattern |-> "fallback"],
       [key |-> S_cache_miss, pattern |-> "cache_recovery"] >>

\* for key, pattern in pattern_map.items(): if key in error_type.lower(): return
RECURSIVE FirstMatch(_, _)
FirstMatch(error_type, i) ==
    IF i > Len(pattern_map) THEN None
    ELSE IF IsSubstring(pattern_map[i].key, Lower(error_type))
         THEN pattern_map[i].pattern
         ELSE FirstMatch(error_type, i + 1)

\* a selector that selects a pattern only while none has been applied yet
_determine_healing_pattern_once(context) ==
    IF Len(applied_patterns) > 0 THEN None
    ELSE FirstMatch(GetStr(context.error_type, S_empty), 1)

\* on a context entry: an absent error_type is ""
_determine_healing_pattern(context) ==
    FirstMatch(GetStr(context.error_type, S_empty), 1)

\* error_type.lower() on an error_type that is not a string raises AttributeError
HealingRaises(context) == context.error_type.k = "other"

(***************************************************************************)
(* SelfHealingPatterns: the catalog                                         *)
(***************************************************************************)
patterns ==
    {"connection_retry", "circuit_breaker", "fallback", "cache_recovery",
     "rate_limiter", "health_check"}

\* KnownPattern without the test
KnownPatternAny(pattern_name) == TRUE

\* line 1070: pattern_name in self.patterns
KnownPattern(pattern_name) == pattern_name \in patterns

(***************************************************************************)
(* EvaluationFramework: pure parts                                          *)
(***************************************************************************)
\* _execute_test returning the default whatever the input holds
_execute_test_default(input_data) == "test_output"

\* _execute_test: input_data.get("expected_result", "test_output")
_execute_test(input_data) ==
    IF input_data.expected_result = "<absent>" THEN "test_output"
    ELSE input_data.expected_result

\* _run_test: passed = actual_output == expected_output
_run_test(test_case) ==
    [test_case EXCEPT !.actual_output = _execute_test(test_case.input_data),
                      !.passed = (_execute_test(test_case.input_data)
                                  = test_case.expected_output)]

\* _run_suite, with pass_rate as a fraction (the integer 0 for an empty suite)
_run_suite(suite_name, test_cases) ==
    LET results == [i \in 1..Len(test_cases) |-> _run_test(test_cases[i])]
        passed == Cardinality({i \in 1..Len(results) : results[i].passed})
        total == Len(results)
    IN  [suite_name |-> suite_name, total_tests |-> total, passed |-> passed,
         failed |-> total - passed,
         pass_rate |-> IF total > 0 THEN [num |-> passed, den |-> total]
                       ELSE [num |-> 0, den |-> 1],
         test_results |-> results]

\* pass_rate < 0.8, i.e. num / den < 4 / 5
BelowThreshold(rate) == rate.num * 5 < rate.den * 4

\* sum(r[field] for r in results.values()) over the first i suites
RECURSIVE SumOf(_, _, _)
SumOf(results, field, i) ==
    IF i = 0 THEN 0 ELSE SumOf(results, field, i - 1) + results[i][field]

\* _generate_recommendations: one line per suite below 0.8, in the dict's order
RECURSIVE _generate_recommendations(_, _)
_generate_recommendations(results, i) ==
    IF i = 0 THEN <<>>
    ELSE LET before == _generate_recommendations(results, i - 1)
         IN  IF BelowThreshold(results[i].pass_rate)
             THEN Append(before, [suite |-> results[i].suite_name,
                                  failing |-> results[i].failed])
             ELSE before

\* summary of the last suite only, in place of the sums over the suites
_generate_report_last_suite(results) ==
    LET last == IF Len(results) = 0 THEN _run_suite("", <<>>)
                ELSE results[Len(results)]
    IN  [summary |-> [total_suites |-> Len(results),
                      total_tests |-> last.total_tests,
                      total_passed |-> last.passed,
                      total_failed |-> last.failed,
                      overall_pass_rate |-> last.pass_rate],
         suites |-> results,
         recommendations |-> _generate_recommendations(results, Len(results))]

\* _generate_report; results is the dict all_results, a suite per entry, in
\* insertion order
_generate_report(results) ==
    LET total_tests == SumOf(results, "total_tests", Len(results))
        total_passed == SumOf(results, "passed", Len(results))
    IN  [summary |-> [total_suites |-> Len(results),
                      total_tests |-> total_tests,
                      total_passed |-> total_passed,
                      total_failed |-> total_tests - total_passed,
                      overall_pass_rate |->
                          IF total_tests > 0
                          THEN [num |-> total_passed, den |-> total_tests]
                          ELSE [num |-> 0, den |-> 1]],
         suites |-> results,
         recommendations |-> _generate_recommendations(results, Len(results))]

\* the dict test_suites is a sequence of entries in insertion order
HasSuite(suites, name) == \E i \in 1..Len(suites) : suites[i].name = name

\* self.test_suites.get(name, [])
GetSuite(suites, name) ==
    IF HasSuite(suites, name)
    THEN suites[CHOOSE i \in 1..Len(suites) : suites[i].name = name].cases
    ELSE <<>>

\* self.test_suites[name] = test_cases: an existing key keeps its position
PutSuite(suites, name, test_cases) ==
    IF HasSuite(suites, name)
    THEN [i \in 1..Len(suites) |->
             IF suites[i].name = name THEN [name |-> name, cases |-> test_cases]
             ELSE suites[i]]
    ELSE Append(suites, [name |-> name, cases |-> test_cases])

\* the suites run_evaluation runs: the named one, or all when the name is falsy
SuitesToRun(suites, suite_name) ==
    IF suite_name \notin {None, ""}
    THEN << [name |-> suite_name, cases |-> GetSuite(suites, suite_name)] >>
    ELSE suites

\* all_results of run_evaluation (lines 647-651)
AllResults(suites, suite_name) ==
    LET run == SuitesToRun(suites, suite_name)
    IN  [i \in 1..Len(run) |-> _run_suite(run[i].name, run[i].cases)]

\* the suites after a run: _run_test writes into the TestCase objects they hold
SuitesAfterRun(suites, suite_name) ==
    [i \in 1..Len(suites) |->
        IF suite_name \in {None, "", suites[i].name}
        THEN [name |-> suites[i].name,
              cases |-> _run_suite(suites[i].name, suites[i].cases).test_results]
        ELSE suites[i]]

(***************************************************************************)
(* Inputs: the failures handed to handle_failure, the objects bound to      *)
(* protocol.debugger and the check functions bound on the verifier.         *)
(***************************************************************************)
ErrorTypes ==
    {Absent, NonStr, Str(S_connection_timeout), Str(S_rate_limit_exceeded),
     Str(S_unknown_thing)}
Tracebacks == {Absent, NonStr, Str(S_TimeoutError)}
Targets == {"<absent>", "mcp_server"}
ExpectedResults == {"<absent>", "{success: True}"}

Contexts ==
    [error_type : ErrorTypes, traceback : Tracebacks, target : Targets,
     expected_result : ExpectedResults]

\* Failure(type=t, description=..., context=ctx): resolved and resolution default
NewFailure(t, ctx) ==
    [type |-> t, context |-> ctx, resolved |-> FALSE, resolution |-> None]

NoFailure ==
    [type |-> "<none>",
     context |-> [error_type |-> Absent, traceback |-> Absent, target |-> "<absent>",
                  expected_result |-> "<absent>"],
     resolved |-> FALSE, resolution |-> None]

\* check functions of which the checks in `bad` fail and those in `err` raise
ChecksWith(bad, err) ==
    [c \in CheckNames |-> IF c \in err THEN "raise" ELSE IF c \in bad THEN "fail" ELSE "pass"]

\* protocol.debugger and the verifier's check functions.  The debugger is the
\* built-in MCPDebugger, or a replacement with the same debug_failure interface
\* that returns no code_changes ("no_changes"), returns code_changes carrying
\* a "type" ("typed_changes"), raises ("raises"), or awaits an external
\* service that never answers ("hangs").
PipelineConfigs ==
    { <<"MCPDebugger", BuiltinChecks>>,
      <<"no_changes", BuiltinChecks>>,
      <<"raises", BuiltinChecks>>,
      <<"hangs", BuiltinChecks>>,
      <<"typed_changes", BuiltinChecks>>,
      <<"typed_changes", ChecksWith({"style"}, {})>>,
      <<"typed_changes", ChecksWith({}, {"permissions"})>> }

(***************************************************************************)
(* MCPDebugger.debug_failure, and the replacements' debug_failure           *)
(***************************************************************************)
\* the dictionary debug_failure returns when it returns
DebugResult(impl, f) ==
    CASE impl = "MCPDebugger" /\ f.type = "mcp_error" -> McpFix(f)
      [] impl = "MCPDebugger" /\ f.type = "missing_tool" -> _add_missing_tool(f)
      [] impl = "MCPDebugger" /\ f.type = "unclear_docs" -> _improve_documentation(f)
      [] impl = "MCPDebugger" -> _generic_fix(f)
      [] impl = "typed_changes" ->
             [issue |-> "replacement", solution |-> "replacement",
              code_changes |-> [k |-> "dict", file |-> "patch.py",
                                type |-> Str(S_code_security)]]
      [] OTHER ->
             [issue |-> "replacement", solution |-> "replacement",
              code_changes |-> NoChanges]

\* whether debug_failure raises instead
DebugRaises(impl, f) ==
    \/ impl = "raises"
    \/ impl = "MCPDebugger" /\ f.type = "mcp_error" /\ McpFixRaises(f)

\* whether debug_failure never completes: handle_failure awaits it with no
\* timeout (line 1407)
DebugHangs(impl, f) == impl = "hangs"

\* MarkResolved leaving the resolution as it was
MarkResolvedOnly(f, fix) == [f EXCEPT !.resolved = TRUE]

\* lines 116-117: failure.resolved = True; failure.resolution = fix.get("solution", "")
MarkResolved(f, fix) == [f EXCEPT !.resolved = TRUE, !.resolution = fix.solution]

\* the bookkeeping of _fix_mcp_error done for a failure of any kind
DebugResolvesAnyKind(impl, f) == impl = "MCPDebugger"

\* whether debug_failure goes through _fix_mcp_error's bookkeeping
DebugResolves(impl, f) == impl = "MCPDebugger" /\ f.type = "mcp_error"

(***************************************************************************)
(* State                                                                    *)
(***************************************************************************)
NoError == [stage |-> "", kind |-> ""]

NoVerdict ==
    [verified |-> FALSE, agent_count |-> -1, issues |-> <<>>,
     confidence |-> [num |-> 0, den |-> 1]]

\* registry: self.agents as the call's loop over it saw them; order: the
\* checker tasks in the order they completed
IdleCall ==
    [state |-> "idle", change |-> NoChanges, tasks |-> <<>>, results |-> <<>>,
     verdict |-> NoVerdict, error |-> "", registry |-> <<>>, order |-> <<>>]

CallIds == {"pipeline", "direct"}

\* AppendStep inserting at the front of the steps
AppendStepFront(res, name, r) ==
    [res EXCEPT !.steps = <<[step |-> name, result |-> r]>> \o @]

\* AppendStep with the failure record read again from the Failure object
AppendStepRefreshing(res, name, r) ==
    [res EXCEPT !.steps = Append(@, [step |-> name, result |-> r]),
                !.failure = to_dict(failure)]

AppendStep(res, name, r) ==
    [res EXCEPT !.steps = Append(@, [step |-> name, result |-> r])]

StepNames(steps) == [i \in 1..Len(steps) |-> steps[i].step]

Lengths ==
    [fixes |-> Len(fixes), verification_results |-> Len(verification_results),
     generated_tests |-> Len(generated_tests),
     applied_patterns |-> Len(applied_patterns), eval_results |-> Len(eval_results)]

\* no apply_pattern call made directly yet
NoApply ==
    [pattern_name |-> "", target |-> "", outcome |-> "none", invoked |-> None,
     before |-> <<>>]

(***************************************************************************)
(* The CircuitBreaker class of the circuit_breaker strategy (lines 1133-1172) *)
(***************************************************************************)
\* an optional datetime: None, or a time in seconds
Never == <<>>
At(t) == << t >>

\* CircuitBreaker.__init__ (expected_exception is left at Exception)
CircuitBreaker(failure_threshold, recovery_timeout) ==
    [failure_threshold |-> failure_threshold, recovery_timeout |-> recovery_timeout,
     failure_count |-> 0, last_failure_time |-> Never, state |-> "closed",
     \* calls awaiting func, by the state in which they passed the OPEN test
     awaiting |-> [closed |-> 0, half_open |-> 0],
     \* every change of state made so far, with what made it
     moves |-> {},
     \* the last thing a call did
     last |-> "none"]

\* the reset attempted from the moment recovery_timeout has passed
_should_attempt_reset_at_timeout(b, t) ==
    /\ b.last_failure_time # Never
    /\ t - b.last_failure_time[1] >= b.recovery_timeout

\* _should_attempt_reset at time t
_should_attempt_reset(b, t) ==
    /\ b.last_failure_time # Never
    /\ t - b.last_failure_time[1] > b.recovery_timeout

\* a change of state, as recorded in moves
Move(b, to, by, count, t) ==
    [from |-> b.state, to |-> to, by |-> by, count |-> count,
     waited |-> _should_attempt_reset(b, t)]

Moved(b, to, by, count, t) ==
    IF to = b.state THEN b.moves ELSE b.moves \cup {Move(b, to, by, count, t)}

\* _on_success
_on_success(b, t) ==
    [b EXCEPT !.failure_count = 0, !.state = "closed",
              !.moves = Moved(b, "closed", "success", 0, t), !.last = "success"]

\* _on_failure at time t
_on_failure(b, t) ==
    LET count == b.failure_count + 1
        to == IF count >= b.failure_threshold THEN "open" ELSE b.state
    IN  [b EXCEPT !.failure_count = count, !.last_failure_time = At(t), !.state = to,
                  !.moves = Moved(b, to, "failure", count, t), !.last = "failure"]

(***************************************************************************)
(* The HealthChecker class of the health_check strategy (lines 1303-1365)   *)
(***************************************************************************)
\* the keys of `checks` in check_health, in the dict's order (lines 1332-1336)
checks == << "connectivity", "performance", "resources" >>

\* no check_health call is running
NoCheck == [running |-> FALSE, results |-> <<>>, all_healthy |-> TRUE]

\* HealthChecker.__init__, with no call of the wrapper made yet
HealthChecker ==
    [is_healthy |-> TRUE, last_check |-> Never, check_results |-> <<>>,
     \* the check_health call in progress: its locals results and all_healthy
     check |-> NoCheck,
     \* the last call of the wrapper: what it did and the flag it read
     call |-> [outcome |-> "none", is_healthy |-> TRUE]]

\* what a sub-check does: a result with healthy set, one without the key, or
\* an Exception
SubCheckOutcomes == {"healthy", "unhealthy", "no_healthy_key", "raises"}

\* the entry of `results` for a sub-check (lines 1342-1349)
CheckEntry(name, outcome) ==
    [name |-> name, healthy |-> outcome = "healthy", error |-> outcome = "raises"]

(***************************************************************************)
(* The CacheRecovery class of the cache_recovery strategy (lines 1219-1247) *)
(***************************************************************************)
CacheKeys == {"k1", "k2"}

\* the dict self.cache: an absent key has no entry, a present one a single
\* (value, timestamp) pair
NoEntry == <<>>
Entry(value, timestamp) == << [value |-> value, timestamp |-> timestamp] >>

\* CacheRecovery.__init__, with no call made yet
CacheRecovery(ttl) ==
    [cache |-> [k \in CacheKeys |-> NoEntry], ttl |-> ttl,
     \* the get_or_compute calls suspended at `await compute_func`, per key
     awaiting |-> [k \in CacheKeys |-> 0],
     \* the last step of a get_or_compute call: what it did for which key at
     \* what time, the value it returned, the key's entry before it, and
     \* whether it left the dict as it was
     last |-> [outcome |-> "none", key |-> "", at |-> 0, value |-> None,
               entry |-> NoEntry, kept |-> TRUE]]

\* the test of line 1228 made on every entry, expired or not
FreshWhenPresent(c, key, t) == c.cache[key] # NoEntry

\* lines 1226-1228: the key has an entry younger than the ttl
Fresh(c, key, t) ==
    /\ c.cache[key] # NoEntry
    /\ t - c.cache[key][1].timestamp < c.ttl

(***************************************************************************)
(* The connection_retry decorator of the connection_retry strategy (lines   *)
(* 1094-1113)                                                               *)
(***************************************************************************)
\* connection_retry(max_attempts, base_delay, max_delay)(func), not called yet
connection_retry(max_attempts, base_delay, max_delay) ==
    [max_attempts |-> max_attempts, base_delay |-> base_delay,
     max_delay |-> max_delay,
     \* the call of wrapper in progress: where it is, its local attempt, what it
     \* returned or raised, what each await of func ended with and the delay
     \* of each sleep
     state |-> "idle", attempt |-> 0, outcome |-> "none",
     attempts |-> <<>>, delays |-> <<>>]

\* except (ConnectionError, TimeoutError)
Retriable(e) == e \in {"ConnectionError", "TimeoutError"}

Min(a, b) == IF a < b THEN a ELSE b

\* the delay without the cap of max_delay
delay_uncapped(r, attempt, jitter) == r.base_delay * (2 ^ attempt) + jitter

\* line 1108; jitter is random.uniform(0, 1)
delay(r, attempt, jitter) ==
    Min(r.base_delay * (2 ^ attempt) + jitter, r.max_delay)

(***************************************************************************)
(* The RateLimiter class of the rate_limiter strategy (lines 1264-1286)     *)
(***************************************************************************)
\* RateLimiter.__init__
RateLimiter(max_calls, time_window) ==
    [max_calls |-> max_calls, time_window |-> time_window, calls |-> <<>>,
     \* the acquire calls in asyncio.sleep: when the sleep ends, and the oldest
     \* recorded call when the call first found the quota full
     sleeping |-> <<>>,
     \* every acquire call that returned: the time it recorded, and the call
     \* that had blocked it
     granted |-> <<>>,
     \* acquire calls made by callers so far
     acquires |-> 0]

\* lines 1274-1275: the recorded calls left at time t
RECURSIVE RemoveOld(_, _, _)
RemoveOld(recorded, t, time_window) ==
    IF recorded # <<>> /\ t - Head(recorded) > time_window
    THEN RemoveOld(Tail(recorded), t, time_window)
    ELSE recorded

\* the quota taken as full only when it is exceeded
QuotaFullWhenOver(l, kept) == Len(kept) > l.max_calls

\* line 1278
QuotaFull(l, kept) == Len(kept) >= l.max_calls

\* acquire from line 1271 to its first await or to its return, at time t;
\* blocked is Never in a call made by a caller, and in the call made at line
\* 1283 the recorded call that blocked the caller's call
acquire(l, t, blocked) ==
    LET kept == RemoveOld(l.calls, t, l.time_window)
    IN  IF QuotaFull(l, kept)
        THEN LET oldest_call == kept[1]
                 wait_time == l.time_window - (t - oldest_call)
             IN  [l EXCEPT !.calls = kept,
                           !.sleeping = Append(@,
                               [until |-> t + wait_time,
                                blocked_by |-> IF blocked = Never
                                               THEN At(oldest_call) ELSE blocked])]
        ELSE [l EXCEPT !.calls = Append(kept, t),
                       !.granted = Append(@, [at |-> t, blocked_by |-> blocked])]

\* the strategies' objects before any strategy code has run: the breaker the
\* emitted code builds with CircuitBreaker() (line 1175), the limiter it builds
\* at line 1289
StrategiesUnused ==
    /\ now = 0
    /\ breaker = CircuitBreaker(5, 60)
    /\ health = HealthChecker
    /\ cache = CacheRecovery(3600)
    /\ retry = connection_retry(3, 1, 60)
    /\ limiter = RateLimiter(10, 60)

\* the state after SelfImprovementProtocol.__init__, with no run started
InitState ==
    /\ failure = NoFailure
    /\ pc = "idle"
    /\ result = [failure |-> to_dict(NoFailure), steps |-> <<>>]
    /\ error = NoError
    /\ stageLog = <<>>
    /\ entry = [fixes |-> 0, verification_results |-> 0, generated_tests |-> 0,
                applied_patterns |-> 0, eval_results |-> 0]
    /\ fixes = <<>>
    /\ agents = DefaultAgents
    /\ verification_results = <<>>
    /\ calls = [c \in CallIds |-> IdleCall]
    /\ generated_tests = <<>>
    /\ applied_patterns = <<>>
    /\ test_suites = <<>>
    /\ eval_results = <<>>
    /\ runs = 0
    /\ directCalls = 0
    /\ history = {}
    /\ selOutput = "<unset>"
    /\ apply_call = NoApply

Init ==
    /\ InitState
    /\ StrategiesUnused
    /\ selInput = NoFailure.context
    /\ \E cfg \in PipelineConfigs : debuggerImpl = cfg[1] /\ checkImpl = cfg[2]

(***************************************************************************)
(* MultiAgentVerifier.verify_change: up to the gather, the checker tasks,   *)
(* and from the gather on.                                                  *)
(***************************************************************************)
\* lines 752-763: assign the tasks and suspend at asyncio.gather
StartedCall(change) ==
    LET tasks == AssignTasks(agents, change, 1)
    IN  [state |-> "gather", change |-> change, tasks |-> tasks,
         results |-> [i \in 1..Len(tasks) |-> PendingResult(tasks[i])],
         verdict |-> NoVerdict, error |-> "", registry |-> agents, order |-> <<>>]

\* CheckerTask with the results collected in the order the tasks complete
CheckerTaskArrival(c, i) ==
    /\ calls[c].state \in {"gather", "raised"}
    /\ i \in 1..Len(calls[c].tasks)
    /\ \A k \in 1..Len(calls[c].order) : calls[c].order[k] # i
    /\ calls' = [calls EXCEPT ![c].results[Len(calls[c].order) + 1] =
                                  _execute_verification(checkImpl, calls[c].tasks[i]),
                              ![c].order = Append(@, i)]
    /\ UNCHANGED << debuggerImpl, checkImpl, failure, pc, result, error, stageLog,
                    entry, fixes, agents, verification_results, generated_tests,
                    applied_patterns, test_suites, eval_results, runs, directCalls,
                    history, selInput, selOutput, apply_call, strategyVars >>

\* one checker task runs _execute_verification; the tasks of a call whose
\* gather already raised keep running.  gather keeps each task's result at
\* the position of its awaitable.
CheckerTask(c, i) ==
    /\ calls[c].state \in {"gather", "raised"}
    /\ i \in 1..Len(calls[c].tasks)
    /\ calls[c].results[i].status = "pending"
    /\ calls' = [calls EXCEPT ![c].results[i] =
                                  _execute_verification(checkImpl, calls[c].tasks[i]),
                              ![c].order = Append(@, i)]
    /\ UNCHANGED << debuggerImpl, checkImpl, failure, pc, result, error, stageLog,
                    entry, fixes, agents, verification_results, generated_tests,
                    applied_patterns, test_suites, eval_results, runs, directCalls,
                    history, selInput, selOutput, apply_call, strategyVars >>

\* GatherDone counting the applicable agents of the registry as it is now
GatherDoneRescanning(c) ==
    /\ calls[c].state = "gather"
    /\ \A i \in 1..Len(calls[c].results) : calls[c].results[i].status = "done"
    /\ LET aggregated ==
               [_aggregate_results(calls[c].results) EXCEPT
                   !.agent_count = Len(AssignTasks(agents, calls[c].change, 1))]
       IN  /\ verification_results' =
                  Append(verification_results,
                         [change |-> calls[c].change, results |-> calls[c].results,
                          aggregated |-> aggregated])
           /\ calls' = [calls EXCEPT ![c].state = "done", ![c].verdict = aggregated]
    /\ UNCHANGED << debuggerImpl, checkImpl, failure, pc, result, error, stageLog,
                    entry, fixes, agents, generated_tests, applied_patterns,
                    test_suites, eval_results, runs, directCalls, history,
                    selInput, selOutput, apply_call, strategyVars >>

\* GatherDone aggregating the results of every call's tasks that have returned
GatherDoneSharedResults(c) ==
    /\ calls[c].state = "gather"
    /\ \A i \in 1..Len(calls[c].results) : calls[c].results[i].status = "done"
    /\ LET others == CHOOSE d \in CallIds : d # c
           returned == SelectSeq(calls[others].results, LAMBDA r : r.status = "done")
           aggregated == _aggregate_results(calls[c].results \o returned)
       IN  /\ verification_results' =
                  Append(verification_results,
                         [change |-> calls[c].change, results |-> calls[c].results,
                          aggregated |-> aggregated])
           /\ calls' = [calls EXCEPT ![c].state = "done", ![c].verdict = aggregated]
    /\ UNCHANGED << debuggerImpl, checkImpl, failure, pc, result, error, stageLog,
                    entry, fixes, agents, generated_tests, applied_patterns,
                    test_suites, eval_results, runs, directCalls, history,
                    selInput, selOutput, apply_call, strategyVars >>

\* lines 765-775: every task returned; aggregate, record and return
GatherDone(c) ==
    /\ calls[c].state = "gather"
    /\ \A i \in 1..Len(calls[c].results) : calls[c].results[i].status = "done"
    /\ LET aggregated == _aggregate_results(calls[c].results)
       IN  /\ verification_results' =
                  Append(verification_results,
                         [change |-> calls[c].change, results |-> calls[c].results,
                          aggregated |-> aggregated])
           /\ calls' = [calls EXCEPT ![c].state = "done", ![c].verdict = aggregated]
    /\ UNCHANGED << debuggerImpl, checkImpl, failure, pc, result, error, stageLog,
                    entry, fixes, agents, generated_tests, applied_patterns,
                    test_suites, eval_results, runs, directCalls, history,
                    selInput, selOutput, apply_call, strategyVars >>

\* line 761: gather re-raises the error of a task that raised
GatherRaise(c) ==
    /\ calls[c].state = "gather"
    /\ \E i \in 1..Len(calls[c].results) :
          /\ calls[c].results[i].status = "raised"
          /\ calls' = [calls EXCEPT ![c].state = "raised",
                                    ![c].error = calls[c].results[i].error]
    /\ UNCHANGED << debuggerImpl, checkImpl, failure, pc, result, error, stageLog,
                    entry, fixes, agents, verification_results, generated_tests,
                    applied_patterns, test_suites, eval_results, runs, directCalls,
                    history, selInput, selOutput, apply_call, strategyVars >>

(***************************************************************************)
(* SelfImprovementProtocol.handle_failure, one action per stage             *)
(***************************************************************************)
\* lines 1399-1404: a caller hands in a new Failure or the one of the last run
HandleFailureStart(f) ==
    /\ pc \in {"idle", "returned", "raised", "cancelled"}
    /\ runs < MaxRuns
    /\ calls["direct"].state # "gather"
    /\ failure' = f
    /\ result' = [failure |-> to_dict(f), steps |-> <<>>]
    /\ pc' = "debug"
    /\ error' = NoError
    /\ stageLog' = <<>>
    /\ entry' = Lengths
    /\ calls' = [calls EXCEPT !["pipeline"] = IdleCall]
    /\ runs' = runs + 1
    /\ UNCHANGED << debuggerImpl, checkImpl, fixes, agents, verification_results,
                    generated_tests, applied_patterns, test_suites, eval_results,
                    directCalls, history, selInput, selOutput, apply_call, strategyVars >>

\* DebugStage catching the error of debug_failure and going on
DebugStageSwallowing ==
    /\ pc = "debug"
    /\ ~DebugHangs(debuggerImpl, failure)
    /\ stageLog' = Append(stageLog, "debug")
    /\ IF DebugRaises(debuggerImpl, failure)
       THEN /\ pc' = "regression"
            /\ UNCHANGED << failure, result, fixes, error, strategyVars >>
       ELSE LET debug_result == DebugResult(debuggerImpl, failure)
            IN  /\ IF DebugResolves(debuggerImpl, failure)
                   THEN /\ fixes' = Append(fixes, debug_result)
                        /\ failure' = MarkResolved(failure, debug_result)
                   ELSE UNCHANGED << fixes, failure, strategyVars >>
                /\ result' = AppendStep(result, "debug", debug_result)
                /\ pc' = "verify"
                /\ error' = error
    /\ UNCHANGED << debuggerImpl, checkImpl, entry, agents, verification_results,
                    calls, generated_tests, applied_patterns, test_suites,
                    eval_results, runs, directCalls, history, selInput, selOutput, apply_call, strategyVars >>

\* lines 1406-1408 with MCPDebugger.debug_failure (lines 88-118)
DebugStage ==
    /\ pc = "debug"
    /\ ~DebugHangs(debuggerImpl, failure)
    /\ stageLog' = Append(stageLog, "debug")
    /\ IF DebugRaises(debuggerImpl, failure)
       THEN /\ pc' = "raised"
            /\ error' = [stage |-> "debug", kind |-> "error in debug_failure"]
            /\ UNCHANGED << failure, result, fixes, strategyVars >>
       ELSE LET debug_result == DebugResult(debuggerImpl, failure)
            IN  /\ IF DebugResolves(debuggerImpl, failure)
                   THEN /\ fixes' = Append(fixes, debug_result)
                        /\ failure' = MarkResolved(failure, debug_result)
                   ELSE UNCHANGED << fixes, failure, strategyVars >>
                /\ result' = AppendStep(result, "debug", debug_result)
                /\ pc' = "verify"
                /\ error' = error
    /\ UNCHANGED << debuggerImpl, checkImpl, entry, agents, verification_results,
                    calls, generated_tests, applied_patterns, test_suites,
                    eval_results, runs, directCalls, history, selInput, selOutput, apply_call, strategyVars >>

\* HasCodeChanges without the test
AlwaysVerify(debug_result) == TRUE

\* debug_result.get("code_changes"): a non-empty dictionary is truthy
HasCodeChanges(debug_result) == debug_result.code_changes.k = "dict"

\* lines 1410-1412: call verify_change when the diagnosis carries code_changes
VerifyStage ==
    /\ pc = "verify"
    /\ IF HasCodeChanges(result.steps[1].result)
       THEN /\ calls' = [calls EXCEPT !["pipeline"] =
                             StartedCall(result.steps[1].result.code_changes)]
            /\ stageLog' = Append(stageLog, "verify")
            /\ pc' = "verifying"
       ELSE /\ pc' = "regression"
            /\ UNCHANGED << calls, stageLog, strategyVars >>
    /\ UNCHANGED << debuggerImpl, checkImpl, failure, result, error, entry, fixes,
                    agents, verification_results, generated_tests, applied_patterns,
                    test_suites, eval_results, runs, directCalls, history,
                    selInput, selOutput, apply_call, strategyVars >>

\* lines 1412-1413: verify_change returned its verdict
VerifyReturn ==
    /\ pc = "verifying"
    /\ calls["pipeline"].state = "done"
    /\ result' = AppendStep(result, "verify", calls["pipeline"].verdict)
    /\ pc' = "regression"
    /\ UNCHANGED << debuggerImpl, checkImpl, failure, error, stageLog, entry, fixes,
                    agents, verification_results, calls, generated_tests,
                    applied_patterns, test_suites, eval_results, runs, directCalls,
                    history, selInput, selOutput, apply_call, strategyVars >>

\* line 1412: verify_change raised; handle_failure does not catch it
VerifyRaise ==
    /\ pc = "verifying"
    /\ calls["pipeline"].state = "raised"
    /\ pc' = "raised"
    /\ error' = [stage |-> "verify", kind |-> calls["pipeline"].error]
    /\ UNCHANGED << debuggerImpl, checkImpl, failure, result, stageLog, entry, fixes,
                    agents, verification_results, calls, generated_tests,
                    applied_patterns, test_suites, eval_results, runs, directCalls,
                    history, selInput, selOutput, apply_call, strategyVars >>

\* Cancel without the cancellation of the checker tasks
CancelRunOnly ==
    /\ pc = "verifying"
    /\ calls["pipeline"].state = "gather"
    /\ pc' = "cancelled"
    /\ error' = [stage |-> "verify", kind |-> "CancelledError"]
    /\ UNCHANGED << debuggerImpl, checkImpl, failure, result, stageLog, entry, fixes,
                    agents, verification_results, calls, generated_tests,
                    applied_patterns, test_suites, eval_results, runs, directCalls,
                    history, selInput, selOutput, apply_call, strategyVars >>

\* The task running handle_failure is cancelled while it is suspended in
\* verify_change's gather (lines 1412, 761): the gather cancels each of its
\* tasks that has not completed, and CancelledError then leaves verify_change
\* and handle_failure, neither of which catches it.
Cancel ==
    /\ pc = "verifying"
    /\ calls["pipeline"].state = "gather"
    /\ calls' = [calls EXCEPT
                    !["pipeline"].state = "cancelled",
                    !["pipeline"].error = "CancelledError",
                    !["pipeline"].results =
                        [i \in 1..Len(@) |->
                            IF @[i].status = "pending"
                            THEN [@[i] EXCEPT !.status = "cancelled"]
                            ELSE @[i]]]
    /\ pc' = "cancelled"
    /\ error' = [stage |-> "verify", kind |-> "CancelledError"]
    /\ UNCHANGED << debuggerImpl, checkImpl, failure, result, stageLog, entry, fixes,
                    agents, verification_results, generated_tests,
                    applied_patterns, test_suites, eval_results, runs, directCalls,
                    history, selInput, selOutput, apply_call, strategyVars >>

\* the resolution _generate_test_code embeds: failure.resolution or the placeholder
EmbeddedResolution(f) ==
    IF f.resolution = None \/ f.resolution = "" THEN "No resolution yet"
    ELSE f.resolution

\* RegressionStage storing the resolution it embeds back into the Failure
RegressionStageWritingBack(ioOk) ==
    /\ pc = "regression"
    /\ stageLog' = Append(stageLog, "regression_test")
    /\ generated_tests' =
           Append(generated_tests,
                  [name |-> failure.type, failure |-> to_dict(failure),
                   resolution |-> EmbeddedResolution(failure)])
    /\ failure' = [failure EXCEPT !.resolution = EmbeddedResolution(failure)]
    /\ IF ioOk
       THEN /\ result' = AppendStep(result, "regression_test", failure.type)
            /\ pc' = "healing"
            /\ error' = error
       ELSE /\ pc' = "raised"
            /\ error' = [stage |-> "regression_test", kind |-> "OSError"]
            /\ result' = result
    /\ UNCHANGED << debuggerImpl, checkImpl, entry, fixes, agents,
                    verification_results, calls, applied_patterns, test_suites,
                    eval_results, runs, directCalls, history, selInput, selOutput,
                    apply_call, strategyVars >>

\* lines 1415-1417 with RegressionTestGenerator.generate_from_failure (893-914);
\* ioOk: whether os.makedirs, open and write succeed
RegressionStage(ioOk) ==
    /\ pc = "regression"
    /\ stageLog' = Append(stageLog, "regression_test")
    /\ generated_tests' =
           Append(generated_tests,
                  [name |-> failure.type, failure |-> to_dict(failure),
                   resolution |-> EmbeddedResolution(failure)])
    /\ IF ioOk
       THEN /\ result' = AppendStep(result, "regression_test", failure.type)
            /\ pc' = "healing"
            /\ error' = error
       ELSE /\ pc' = "raised"
            /\ error' = [stage |-> "regression_test", kind |-> "OSError"]
            /\ result' = result
    /\ UNCHANGED << debuggerImpl, checkImpl, failure, entry, fixes, agents,
                    verification_results, calls, applied_patterns, test_suites,
                    eval_results, runs, directCalls, history, selInput, selOutput, apply_call, strategyVars >>

\* TargetOf ignoring the context's target
TargetAlwaysSystem(context) == "system"

\* failure.context.get("target", "system")
TargetOf(context) ==
    IF context.target = "<absent>" THEN "system" ELSE context.target

\* the dictionary apply_pattern returns and records (lines 1076-1081)
PatternApplication(pattern_name, target) ==
    [pattern |-> pattern_name, target |-> target, implementation |-> pattern_name]

\* lines 1419-1426 with SelfHealingPatterns.apply_pattern (1068-1085)
HealingStage ==
    /\ pc = "healing"
    /\ IF HealingRaises(failure.context)
       THEN /\ pc' = "raised"
            /\ error' = [stage |-> "self_healing", kind |-> "AttributeError"]
            /\ UNCHANGED << result, applied_patterns, stageLog, strategyVars >>
       ELSE LET pattern == _determine_healing_pattern(failure.context)
                healing_result ==
                    PatternApplication(pattern, TargetOf(failure.context))
            IN  IF pattern = None
                THEN /\ pc' = "evaluation"
                     /\ UNCHANGED << result, applied_patterns, stageLog, error, strategyVars >>
                ELSE IF ~KnownPattern(pattern)
                THEN /\ pc' = "raised"
                     /\ error' = [stage |-> "self_healing", kind |-> "ValueError"]
                     /\ stageLog' = Append(stageLog, "self_healing")
                     /\ UNCHANGED << result, applied_patterns, strategyVars >>
                ELSE /\ applied_patterns' = Append(applied_patterns, healing_result)
                     /\ result' = AppendStep(result, "self_healing", healing_result)
                     /\ stageLog' = Append(stageLog, "self_healing")
                     /\ pc' = "evaluation"
                     /\ error' = error
    /\ UNCHANGED << debuggerImpl, checkImpl, failure, entry, fixes, agents,
                    verification_results, calls, generated_tests, test_suites,
                    eval_results, runs, directCalls, history, selInput, selOutput, apply_call, strategyVars >>

\* the TestCase list _run_evaluation builds (lines 1455-1461)
FixTestCases(f) ==
    << [name |-> "test_fix_" \o f.type, input_data |-> f.context,
        expected_output |-> "{success: True}", actual_output |-> None,
        passed |-> FALSE] >>

\* the pattern name of a trace's self_healing step, None when it has none
PatternOf(steps) ==
    IF \E i \in 1..Len(steps) : steps[i].step = "self_healing"
    THEN steps[CHOOSE i \in 1..Len(steps) : steps[i].step = "self_healing"].result.pattern
    ELSE None

\* lines 1428-1432 with _run_evaluation (1452-1464) and run_evaluation (640-662)
EvaluationStage ==
    /\ pc = "evaluation"
    /\ stageLog' = Append(stageLog, "evaluation")
    /\ LET suite_name == "fix_" \o failure.type
           created == PutSuite(test_suites, suite_name, FixTestCases(failure))
           report == _generate_report(AllResults(created, suite_name))
           final == AppendStep(result, "evaluation", report)
       IN  /\ test_suites' = SuitesAfterRun(created, suite_name)
           /\ eval_results' = Append(eval_results, report)
           /\ result' = final
           /\ history' = history \cup
                  {[context |-> failure.context, names |-> StepNames(final.steps),
                    pattern |-> PatternOf(final.steps)]}
    /\ pc' = "returned"
    /\ UNCHANGED << debuggerImpl, checkImpl, failure, error, entry, fixes, agents,
                    verification_results, calls, generated_tests, applied_patterns,
                    runs, directCalls, selInput, selOutput, apply_call, strategyVars >>

\* the context of the MCP failure that main() hands in (lines 1520-1528)
MainContext ==
    [error_type |-> Str(S_timeout), traceback |-> Str(S_main_traceback),
     target |-> "mcp_connect", expected_result |-> "<absent>"]

\* the context of the second failure of demonstrate_mcp_debugging
\* (example_usage.py, lines 37-46); error_type is "authentication"
DemoAuthContext ==
    [error_type |-> Str(S_authentication), traceback |-> Str(S_demo_auth_traceback),
     target |-> "auth_service", expected_result |-> "<absent>"]

\* the Failure that example_usage.py builds already resolved (lines 286-297)
ExampleResolvedFailure ==
    [type |-> "validation_error",
     context |-> [error_type |-> Absent, traceback |-> Absent, target |-> "<absent>",
                  expected_result |-> "<absent>"],
     resolved |-> TRUE, resolution |-> "Added email regex validation"]

\* The first run handles any failure, built with the defaults or, as the
\* examples do, already resolved or with the debugging demo's context.  A later run handles the same Failure
\* object again, a new Failure with the same context (of the same type or an
\* MCP error), or main()'s failure.
HandleFailure ==
    \/ (runs = 0 /\ \E t \in FailureType, ctx \in Contexts :
                        HandleFailureStart(NewFailure(t, ctx)))
    \/ (runs = 0 /\ HandleFailureStart(ExampleResolvedFailure))
    \/ (runs = 0 /\ HandleFailureStart(NewFailure("mcp_error", DemoAuthContext)))
    \/ (runs > 0 /\ HandleFailureStart(failure))
    \/ (runs > 0 /\ \E t \in {failure.type, "mcp_error"} :
                        HandleFailureStart(NewFailure(t, failure.context)))
    \/ (runs > 0 /\ HandleFailureStart(NewFailure("mcp_error", MainContext)))
    \/ DebugStage
    \/ VerifyStage
    \/ VerifyReturn
    \/ VerifyRaise
    \/ \E ioOk \in BOOLEAN : RegressionStage(ioOk)
    \/ HealingStage
    \/ EvaluationStage

PipelineVerifier ==
    \/ \E i \in 1..Len(calls["pipeline"].tasks) : CheckerTask("pipeline", i)
    \/ GatherDone("pipeline")
    \/ GatherRaise("pipeline")

Next == HandleFailure \/ PipelineVerifier \/ Cancel

Spec == Init /\ [][Next]_vars

(***************************************************************************)
(* The verifier on its own: verify_change called directly (as               *)
(* discover_and_add_tool and improve_documentation do) and register_agent.  *)
(***************************************************************************)
\* the kinds ("type") of the changes handed to verify_change directly
ChangeKinds ==
    {Absent, Str(S_tool_integration), Str(S_documentation), Str(S_code_security),
     Str(S_Security), Str(S_syntax_fix), Str(S_fast_code_security)}

DirectChange(kind) == [k |-> "dict", file |-> "", type |-> kind]

\* the check functions bound on the verifier: the built-in ones, or some of them
\* replaced by functions that report a failure or raise
CheckConfigs ==
    { BuiltinChecks,
      ChecksWith({"syntax"}, {}),
      ChecksWith({"complexity"}, {}),
      ChecksWith({"permissions"}, {}),
      ChecksWith({"style", "complexity"}, {}),
      ChecksWith({"syntax", "vulnerabilities"}, {}),
      ChecksWith({"style", "permissions", "efficiency"}, {}),
      ChecksWith({}, {"style"}),
      ChecksWith({}, {"vulnerabilities"}),
      ChecksWith({"syntax"}, {"permissions"}),
      ChecksWith({"vulnerabilities"}, {"complexity"}),
      ChecksWith({}, {"syntax", "permissions"}) }

\* the agents a caller registers
ExtraAgents ==
    { Agent("syntax_agent", <<S_syntax>>),
      Agent("code_agent", <<S_code>>),
      Agent("any_agent", <<S_empty>>),
      Agent("full_agent", <<S_performance, S_documentation, S_code>>) }

\* lines 742-748
register_agent(agent) ==
    /\ Len(agents) < Len(DefaultAgents) + MaxExtraAgents
    /\ agents' = Append(agents, agent)
    /\ UNCHANGED << debuggerImpl, checkImpl, failure, pc, result, error, stageLog,
                    entry, fixes, verification_results, calls, generated_tests,
                    applied_patterns, test_suites, eval_results, runs, directCalls,
                    history, selInput, selOutput, apply_call, strategyVars >>

\* a caller's verify_change(change) for a change of the given kind, up to the
\* gather (lines 750-763)
DirectVerifyStart(kind) ==
    /\ calls["direct"].state # "gather"
    /\ directCalls < MaxDirectCalls
    /\ calls' = [calls EXCEPT !["direct"] = StartedCall(DirectChange(kind))]
    /\ directCalls' = directCalls + 1
    /\ UNCHANGED << debuggerImpl, checkImpl, failure, pc, result, error, stageLog,
                    entry, fixes, agents, verification_results, generated_tests,
                    applied_patterns, test_suites, eval_results, runs, history,
                    selInput, selOutput, apply_call, strategyVars >>

InitVerifier ==
    /\ InitState
    /\ StrategiesUnused
    /\ selInput = NoFailure.context
    /\ debuggerImpl = "MCPDebugger"
    /\ checkImpl \in CheckConfigs

NextVerifier ==
    \/ \E a \in ExtraAgents : register_agent(a)
    \/ \E kind \in ChangeKinds : DirectVerifyStart(kind)
    \/ \E i \in 1..Len(calls["direct"].tasks) : CheckerTask("direct", i)
    \/ GatherDone("direct")
    \/ GatherRaise("direct")

SpecVerifier == InitVerifier /\ [][NextVerifier]_vars

(***************************************************************************)
(* Two callers call verify_change on one verifier; each call is suspended   *)
(* at its gather while the checker tasks of both run.                       *)
(***************************************************************************)
\* verify_change(change) made as call c, up to the gather (lines 750-763)
OverlappingVerifyStart(c, kind) ==
    /\ calls[c].state = "idle"
    /\ calls' = [calls EXCEPT ![c] = StartedCall(DirectChange(kind))]
    /\ UNCHANGED << debuggerImpl, checkImpl, failure, pc, result, error, stageLog,
                    entry, fixes, agents, verification_results, generated_tests,
                    applied_patterns, test_suites, eval_results, runs, directCalls,
                    history, selInput, selOutput, apply_call, strategyVars >>

NextOverlap ==
    \/ \E c \in CallIds, kind \in ChangeKinds : OverlappingVerifyStart(c, kind)
    \/ \E c \in CallIds : \E i \in 1..Len(calls[c].tasks) : CheckerTask(c, i)
    \/ \E c \in CallIds : GatherDone(c)
    \/ \E c \in CallIds : GatherRaise(c)

SpecOverlap == InitVerifier /\ [][NextOverlap]_vars

(***************************************************************************)
(* The selector on its own: _determine_healing_pattern applied to a         *)
(* failure whose context holds a given error_type.                          *)
(***************************************************************************)
SelectorWords ==
    {S_connection, S_timeout, S_rate_limit, S_service_unavailable, S_cache_miss,
     S_connect, S_exceeded}

\* "_".join(ws)
RECURSIVE JoinWords(_)
JoinWords(ws) ==
    IF Len(ws) = 0 THEN <<>>
    ELSE IF Len(ws) = 1 THEN ws[1]
    ELSE ws[1] \o <<"_">> \o JoinWords(Tail(ws))

WordLists == UNION { [1..n -> SelectorWords] : n \in 0..MaxWords }

\* error types: up to MaxWords words joined, in lower, upper and capitalised case
SelectorErrorTypes ==
    LET joined == { JoinWords(ws) : ws \in WordLists }
    IN  { Str(s) : s \in joined } \cup { Str(Upper(s)) : s \in joined }
        \cup { Str(Capitalized(s)) : s \in joined } \cup {Absent, NonStr}

InitSelector ==
    /\ InitState
    /\ StrategiesUnused
    /\ debuggerImpl = "MCPDebugger"
    /\ checkImpl = BuiltinChecks
    /\ \E e \in SelectorErrorTypes :
           selInput = [NoFailure.context EXCEPT !.error_type = e]

\* a call of _determine_healing_pattern (lines 1434-1450)
Select ==
    /\ selOutput = "<unset>"
    /\ selOutput' = IF HealingRaises(selInput) THEN "<raised>"
                    ELSE _determine_healing_pattern(selInput)
    /\ UNCHANGED << debuggerImpl, checkImpl, failure, pc, result, error, stageLog,
                    entry, fixes, agents, verification_results, calls,
                    generated_tests, applied_patterns, test_suites, eval_results,
                    runs, directCalls, history, selInput, apply_call, strategyVars >>

NextSelector == Select

SpecSelector == InitSelector /\ [][NextSelector]_vars

(***************************************************************************)
(* SelfHealingPatterns on its own: apply_pattern called directly.           *)
(***************************************************************************)
\* the pattern names callers hand in: the catalog's and others
PatternNames ==
    patterns \cup {"unknown_pattern", "", "Connection_Retry", "retry"}

ApplyTargets == {"system", "mcp_server", "mcp_connect"}

\* lines 1068-1085; `invoked` is the strategy function that was awaited
apply_pattern(pattern_name, target) ==
    /\ Len(applied_patterns) < MaxApplies
    /\ IF ~KnownPattern(pattern_name)
       THEN /\ apply_call' = [pattern_name |-> pattern_name, target |-> target,
                              outcome |-> "ValueError", invoked |-> None,
                              before |-> applied_patterns]
            /\ UNCHANGED applied_patterns
       ELSE /\ applied_patterns' =
                   Append(applied_patterns, PatternApplication(pattern_name, target))
            /\ apply_call' = [pattern_name |-> pattern_name, target |-> target,
                              outcome |-> "returned", invoked |-> pattern_name,
                              before |-> applied_patterns]
    /\ UNCHANGED << debuggerImpl, checkImpl, failure, pc, result, error, stageLog,
                    entry, fixes, agents, verification_results, calls,
                    generated_tests, test_suites, eval_results, runs, directCalls,
                    history, selInput, selOutput, strategyVars >>

InitHealing ==
    /\ InitState
    /\ StrategiesUnused
    /\ selInput = NoFailure.context
    /\ debuggerImpl = "MCPDebugger"
    /\ checkImpl = BuiltinChecks

NextHealing == \E name \in PatternNames, target \in ApplyTargets : apply_pattern(name, target)

SpecHealing == InitHealing /\ [][NextHealing]_vars

(***************************************************************************)
(* EvaluationFramework on its own: create_test_suite and run_evaluation     *)
(* called directly.                                                         *)
(***************************************************************************)
\* TestCase(name, input_data, expected_output): not run yet
NewTestCase(name, expected_result, expected_output) ==
    [name |-> name, input_data |-> [expected_result |-> expected_result],
     expected_output |-> expected_output, actual_output |-> None, passed |-> FALSE]

\* the test-case lists callers hand to create_test_suite
EvalCaseLists ==
    { <<>>,
      << NewTestCase("echo", "{success: True}", "{success: True}") >>,
      << NewTestCase("mismatch", "<absent>", "{success: True}"),
         NewTestCase("default", "<absent>", "test_output") >> }

EvalSuiteNames == {"fix_mcp_error", "docs"}

\* the suite_name arguments of run_evaluation: none, a created or an unknown name
EvalRunNames == {None, "docs", "never_created"}

\* lines 636-638
create_test_suite(name, test_cases) ==
    /\ test_suites' = PutSuite(test_suites, name, test_cases)
    /\ UNCHANGED << debuggerImpl, checkImpl, failure, pc, result, error, stageLog,
                    entry, fixes, agents, verification_results, calls,
                    generated_tests, applied_patterns, eval_results, runs,
                    directCalls, history, selInput, selOutput, apply_call, strategyVars >>

\* lines 640-662
run_evaluation(suite_name) ==
    /\ Len(eval_results) < MaxEvaluations
    /\ eval_results' =
           Append(eval_results, _generate_report(AllResults(test_suites, suite_name)))
    /\ test_suites' = SuitesAfterRun(test_suites, suite_name)
    /\ UNCHANGED << debuggerImpl, checkImpl, failure, pc, result, error, stageLog,
                    entry, fixes, agents, verification_results, calls,
                    generated_tests, applied_patterns, runs, directCalls, history,
                    selInput, selOutput, apply_call, strategyVars >>

InitEvaluation ==
    /\ InitState
    /\ StrategiesUnused
    /\ selInput = NoFailure.context
    /\ debuggerImpl = "MCPDebugger"
    /\ checkImpl = BuiltinChecks

NextEvaluation ==
    \/ \E name \in EvalSuiteNames, cases \in EvalCaseLists :
           create_test_suite(name, cases)
    \/ \E suite_name \in EvalRunNames : run_evaluation(suite_name)

SpecEvaluation == InitEvaluation /\ [][NextEvaluation]_vars

(***************************************************************************)
(* The strategies' code on its own: the protocol object is not used.        *)
(***************************************************************************)
ProtocolUnused ==
    /\ InitState
    /\ selInput = NoFailure.context
    /\ debuggerImpl = "MCPDebugger"
    /\ checkImpl = BuiltinChecks

\* time passes
Tick ==
    /\ now < MaxClock
    /\ now' = now + 1

(***************************************************************************)
(* CircuitBreaker.call (lines 1142-1155): up to `await func`, and from it.  *)
(***************************************************************************)
FailureThresholds == 1..MaxThreshold
RecoveryTimeouts == {1, 2}

Awaiting(b) == b.awaiting.closed + b.awaiting.half_open

\* lines 1143-1150: the OPEN test, then func is called and awaited
BreakerCallStart ==
    /\ Awaiting(breaker) < MaxAwaiting
    /\ breaker' =
          IF breaker.state = "open" /\ ~_should_attempt_reset(breaker, now)
          THEN [breaker EXCEPT !.last = "rejected"]
          ELSE LET admitted == IF breaker.state = "open" THEN "half_open"
                               ELSE breaker.state
               IN  [breaker EXCEPT
                       !.state = admitted,
                       !.moves = Moved(breaker, admitted, "call", breaker.failure_count, now),
                       !.awaiting[admitted] = @ + 1,
                       !.last = "invoked"]
    /\ UNCHANGED << protocolVars, now, health, cache, retry, limiter >>

\* lines 1150-1155: func returns, raises an Exception, or raises something
\* that is not an Exception (the task is cancelled)
BreakerCallEnd(admitted, outcome) ==
    /\ breaker.awaiting[admitted] > 0
    /\ LET b == [breaker EXCEPT !.awaiting[admitted] = @ - 1]
       IN  breaker' = CASE outcome = "returns" -> _on_success(b, now)
                        [] outcome = "raises" -> _on_failure(b, now)
                        [] OTHER -> [b EXCEPT !.last = "cancelled"]
    /\ UNCHANGED << protocolVars, now, health, cache, retry, limiter >>

InitBreaker ==
    /\ ProtocolUnused
    /\ now = 0
    /\ health = HealthChecker
    /\ cache = CacheRecovery(3600)
    /\ retry = connection_retry(3, 1, 60)
    /\ limiter = RateLimiter(10, 60)
    /\ \E threshold \in FailureThresholds, timeout \in RecoveryTimeouts :
           breaker = CircuitBreaker(threshold, timeout)

NextBreaker ==
    \/ Tick /\ UNCHANGED << protocolVars, breaker, health, cache, retry, limiter >>
    \/ BreakerCallStart
    \/ \E admitted \in {"closed", "half_open"},
          outcome \in {"returns", "raises", "cancelled"} :
           BreakerCallEnd(admitted, outcome)

SpecBreaker == InitBreaker /\ [][NextBreaker]_vars

(***************************************************************************)
(* HealthChecker.check_health (lines 1331-1353) and the wrapper of the      *)
(* target (lines 1370-1374).                                                *)
(***************************************************************************)
\* lines 1332-1343: the locals are set up and the first sub-check is awaited
CheckHealthStart ==
    /\ ~health.check.running
    /\ health' = [health EXCEPT !.check = [NoCheck EXCEPT !.running = TRUE]]
    /\ UNCHANGED << protocolVars, now, breaker, cache, retry, limiter >>

\* a raising sub-check ends check_health at once, as unhealthy
SubCheckEndAborting(outcome) ==
    /\ health.check.running
    /\ LET name == checks[Len(health.check.results) + 1]
           results == Append(health.check.results, CheckEntry(name, outcome))
           all_healthy == health.check.all_healthy /\ outcome = "healthy"
       IN  health' =
              IF Len(results) < Len(checks) /\ outcome # "raises"
              THEN [health EXCEPT !.check.results = results,
                                  !.check.all_healthy = all_healthy]
              ELSE [health EXCEPT !.is_healthy = all_healthy,
                                  !.last_check = At(now),
                                  !.check_results = results,
                                  !.check = NoCheck]
    /\ UNCHANGED << protocolVars, now, breaker, cache, retry, limiter >>

\* lines 1343-1353: the awaited sub-check ends; the next one is awaited, or
\* after the last one the object's fields are set
SubCheckEnd(outcome) ==
    /\ health.check.running
    /\ LET name == checks[Len(health.check.results) + 1]
           results == Append(health.check.results, CheckEntry(name, outcome))
           all_healthy == health.check.all_healthy /\ outcome = "healthy"
       IN  health' =
              IF Len(results) < Len(checks)
              THEN [health EXCEPT !.check.results = results,
                                  !.check.all_healthy = all_healthy]
              ELSE [health EXCEPT !.is_healthy = all_healthy,
                                  !.last_check = At(now),
                                  !.check_results = results,
                                  !.check = NoCheck]
    /\ UNCHANGED << protocolVars, now, breaker, cache, retry, limiter >>

\* stop() cancels the periodic task while it awaits a sub-check (lines
\* 1315-1318, 1325-1326): check_health ends without setting the fields
CheckHealthCancelled ==
    /\ health.check.running
    /\ health' = [health EXCEPT !.check = NoCheck]
    /\ UNCHANGED << protocolVars, now, breaker, cache, retry, limiter >>

\* {target}_with_health_check (lines 1370-1374): raises, or invokes the target
WithHealthCheck ==
    /\ health' = [health EXCEPT !.call =
                     [outcome |-> IF ~health.is_healthy THEN "Service unhealthy"
                                  ELSE "invoked",
                      is_healthy |-> health.is_healthy]]
    /\ UNCHANGED << protocolVars, now, breaker, cache, retry, limiter >>

InitHealth ==
    /\ ProtocolUnused
    /\ StrategiesUnused

NextHealth ==
    \/ Tick /\ UNCHANGED << protocolVars, breaker, health, cache, retry, limiter >>
    \/ CheckHealthStart
    \/ \E outcome \in SubCheckOutcomes : SubCheckEnd(outcome)
    \/ CheckHealthCancelled
    \/ WithHealthCheck

SpecHealth == InitHealth /\ [][NextHealth]_vars

(***************************************************************************)
(* CacheRecovery.get_or_compute (lines 1224-1241) and invalidate            *)
(***************************************************************************)
CacheTtls == {1, 2}

\* the values compute_func returns
ComputedValues == {"a", "b"}

\* lines 1225-1233: a fresh entry is returned; otherwise compute_func is
\* called and awaited
GetOrComputeStart(key) ==
    /\ IF Fresh(cache, key, now)
       THEN cache' = [cache EXCEPT !.last =
                         [outcome |-> "cached", key |-> key, at |-> now,
                          value |-> cache.cache[key][1].value,
                          entry |-> cache.cache[key], kept |-> TRUE]]
       ELSE /\ cache.awaiting["k1"] + cache.awaiting["k2"] < MaxAwaiting
            /\ cache' = [cache EXCEPT !.awaiting[key] = @ + 1,
                            !.last = [outcome |-> "computing", key |-> key,
                                      at |-> now, value |-> None,
                                      entry |-> cache.cache[key], kept |-> TRUE]]
    /\ UNCHANGED << protocolVars, now, breaker, health, retry, limiter >>

\* lines 1233-1235: compute_func returns value
ComputeReturns(key, value) ==
    /\ cache.awaiting[key] > 0
    /\ cache' = [cache EXCEPT !.awaiting[key] = @ - 1,
                    !.cache[key] = Entry(value, now),
                    !.last = [outcome |-> "computed", key |-> key, at |-> now,
                              value |-> value, entry |-> cache.cache[key],
                              kept |-> cache.cache[key] = Entry(value, now)]]
    /\ UNCHANGED << protocolVars, now, breaker, health, retry, limiter >>

\* lines 1236-1241: compute_func raises an Exception
ComputeRaises(key) ==
    /\ cache.awaiting[key] > 0
    /\ cache' = [cache EXCEPT !.awaiting[key] = @ - 1,
                    !.last = [outcome |-> IF cache.cache[key] # NoEntry
                                          THEN "stale" ELSE "raised",
                              key |-> key, at |-> now,
                              value |-> IF cache.cache[key] # NoEntry
                                        THEN cache.cache[key][1].value ELSE None,
                              entry |-> cache.cache[key], kept |-> TRUE]]
    /\ UNCHANGED << protocolVars, now, breaker, health, retry, limiter >>

\* lines 1243-1247: one key is dropped, or with no key all of them
invalidate(key) ==
    /\ cache' = [cache EXCEPT !.cache =
                    [k \in CacheKeys |-> IF key \in {None, "", k} THEN NoEntry
                                         ELSE cache.cache[k]]]
    /\ UNCHANGED << protocolVars, now, breaker, health, retry, limiter >>

InitCache ==
    /\ ProtocolUnused
    /\ now = 0
    /\ breaker = CircuitBreaker(5, 60)
    /\ health = HealthChecker
    /\ retry = connection_retry(3, 1, 60)
    /\ limiter = RateLimiter(10, 60)
    /\ \E ttl \in CacheTtls : cache = CacheRecovery(ttl)

NextCache ==
    \/ Tick /\ UNCHANGED << protocolVars, breaker, health, cache, retry, limiter >>
    \/ \E key \in CacheKeys : GetOrComputeStart(key)
    \/ \E key \in CacheKeys, value \in ComputedValues : ComputeReturns(key, value)
    \/ \E key \in CacheKeys : ComputeRaises(key)
    \/ \E key \in CacheKeys \cup {None} : invalidate(key)

SpecCache == InitCache /\ [][NextCache]_vars

(***************************************************************************)
(* wrapper of connection_retry (lines 1097-1111)                            *)
(***************************************************************************)
RetryAttempts == 0..MaxAttempts
RetryBaseDelays == {1}
RetryMaxDelays == {3, 60}

\* what an await of func ends with: a result or an error
AttemptOutcomes == {"result", "ConnectionError", "TimeoutError", "ValueError"}

\* the ends of random.uniform(0, 1)
Jitters == {0, 1}

\* lines 1098-1101: a call of wrapper begins; func is awaited unless
\* max_attempts leaves no attempt
RetryCallStart ==
    /\ retry.state \in {"idle", "returned", "raised"}
    /\ retry' = [retry EXCEPT
                    !.attempt = 0, !.attempts = <<>>, !.delays = <<>>,
                    !.outcome = IF 0 < retry.max_attempts THEN "none" ELSE None,
                    !.state = IF 0 < retry.max_attempts THEN "awaiting"
                              ELSE "returned"]
    /\ UNCHANGED << protocolVars, now, breaker, health, cache, limiter >>

\* lines 1101-1109: func returns or raises
AttemptEnd(outcome, jitter) ==
    /\ retry.state = "awaiting"
    /\ LET r == [retry EXCEPT !.attempts = Append(@, outcome)]
           attempt == retry.attempt + 1
       IN  retry' =
              IF outcome = "result"
              THEN [r EXCEPT !.state = "returned", !.outcome = "result"]
              ELSE IF ~Retriable(outcome)
              THEN [r EXCEPT !.state = "raised", !.outcome = outcome]
              ELSE IF attempt >= retry.max_attempts
              THEN [r EXCEPT !.attempt = attempt, !.state = "raised",
                             !.outcome = outcome]
              ELSE [r EXCEPT !.attempt = attempt, !.state = "sleeping",
                             !.delays = Append(@, delay(retry, attempt, jitter))]
    /\ UNCHANGED << protocolVars, now, breaker, health, cache, limiter >>

\* lines 1109, 1099-1101: the sleep ends and func is awaited again
SleepEnd ==
    /\ retry.state = "sleeping"
    /\ retry' = [retry EXCEPT
                    !.state = IF retry.attempt < retry.max_attempts THEN "awaiting"
                              ELSE "returned",
                    !.outcome = IF retry.attempt < retry.max_attempts THEN "none"
                                ELSE None]
    /\ UNCHANGED << protocolVars, now, breaker, health, cache, limiter >>

InitRetry ==
    /\ ProtocolUnused
    /\ now = 0
    /\ breaker = CircuitBreaker(5, 60)
    /\ health = HealthChecker
    /\ cache = CacheRecovery(3600)
    /\ limiter = RateLimiter(10, 60)
    /\ \E max_attempts \in RetryAttempts, base_delay \in RetryBaseDelays,
          max_delay \in RetryMaxDelays :
           retry = connection_retry(max_attempts, base_delay, max_delay)

NextRetry ==
    \/ RetryCallStart
    \/ \E outcome \in AttemptOutcomes, jitter \in Jitters : AttemptEnd(outcome, jitter)
    \/ SleepEnd

SpecRetry == InitRetry /\ [][NextRetry]_vars

(***************************************************************************)
(* RateLimiter.acquire (lines 1270-1286): a call, and the call a sleeping    *)
(* call makes at line 1283 when its sleep has ended.                         *)
(***************************************************************************)
LimiterMaxCalls == {1, 2}
LimiterWindows == {1, 2}

\* a caller awaits limiter.acquire()
AcquireStart ==
    /\ limiter.acquires < MaxAcquires
    /\ Len(limiter.sleeping) < MaxAwaiting
    /\ limiter' = acquire([limiter EXCEPT !.acquires = @ + 1], now, Never)
    /\ UNCHANGED << protocolVars, now, breaker, health, cache, retry >>

\* lines 1282-1283: the sleep of the i-th sleeping call has ended
AcquireResume(i) ==
    /\ i \in 1..Len(limiter.sleeping)
    /\ now >= limiter.sleeping[i].until
    /\ LET s == limiter.sleeping[i]
           rest == [k \in 1..(Len(limiter.sleeping) - 1) |->
                       IF k < i THEN limiter.sleeping[k] ELSE limiter.sleeping[k + 1]]
       IN  limiter' = acquire([limiter EXCEPT !.sleeping = rest], now, s.blocked_by)
    /\ UNCHANGED << protocolVars, now, breaker, health, cache, retry >>

\* time passes; once every recorded call has left the window, more time
\* changes nothing that acquire can tell
LimiterTick ==
    /\ limiter.calls # <<>>
    /\ now - limiter.calls[Len(limiter.calls)] <= limiter.time_window
    /\ now' = now + 1
    /\ UNCHANGED << protocolVars, breaker, health, cache, retry, limiter >>

InitLimiter ==
    /\ ProtocolUnused
    /\ now = 0
    /\ breaker = CircuitBreaker(5, 60)
    /\ health = HealthChecker
    /\ cache = CacheRecovery(3600)
    /\ retry = connection_retry(3, 1, 60)
    /\ \E max_calls \in LimiterMaxCalls, time_window \in LimiterWindows :
           limiter = RateLimiter(max_calls, time_window)

NextLimiter ==
    \/ LimiterTick
    \/ AcquireStart
    \/ \E i \in 1..MaxAwaiting : AcquireResume(i)

\* the clock runs, and the event loop runs a call whose sleep has ended
SpecLimiter ==
    /\ InitLimiter
    /\ [][NextLimiter]_vars
    /\ WF_vars(LimiterTick)
    /\ WF_vars(\E i \in 1..MaxAwaiting : AcquireResume(i))

(***************************************************************************)
(* Properties                                                               *)
(***************************************************************************)
IsPrefix(p, t) == Len(p) <= Len(t) /\ SubSeq(t, 1, Len(p)) = p

HasStep(steps, name) == \E i \in 1..Len(steps) : steps[i].step = name

AllowedTraces ==
    { <<"debug", "regression_test", "evaluation">>,
      <<"debug", "verify", "regression_test", "evaluation">>,
      <<"debug", "regression_test", "self_healing", "evaluation">>,
      <<"debug", "verify", "regression_test", "self_healing", "evaluation">> }

\* C1: the step names of every returned trace are
\* [debug, (verify)?, regression_test, (self_healing)?, evaluation], each at most
\* once and in this order; while a run is under way its steps are a prefix of
\* such a trace.
C1_TraceOrder ==
    /\ \E t \in AllowedTraces : IsPrefix(StepNames(result.steps), t)
    /\ pc = "returned" => StepNames(result.steps) \in AllowedTraces
    /\ \A h \in history : h.names \in AllowedTraces

C1_Witness ==
    /\ pc = "returned"
    /\ StepNames(result.steps)
         = <<"debug", "verify", "regression_test", "self_healing", "evaluation">>

\* C2: a verdict of verify_change with agent_count = 0 has verified = false,
\* confidence = 0 and no issues.
C2_NoCheckerMeansUnverified ==
    \A c \in CallIds :
        (calls[c].state = "done" /\ calls[c].verdict.agent_count = 0)
        => /\ calls[c].verdict.verified = FALSE
           /\ calls[c].verdict.confidence.num = 0
           /\ calls[c].verdict.issues = <<>>

\* the applicable checkers of a call whose every check passed
C3Passing(c) ==
    { i \in 1..Len(calls[c].results) :
        \A j \in 1..Len(calls[c].results[i].results) :
            calls[c].results[i].results[j].passed }

\* C3: for a verdict with agent_count > 0, confidence is the number of
\* applicable checkers whose every check passed over agent_count, it lies in
\* [0, 1], and verified holds exactly when confidence is 1.
C3_ConfidenceIsPassRatio ==
    \A c \in CallIds :
        (calls[c].state = "done" /\ calls[c].verdict.agent_count > 0)
        => LET v == calls[c].verdict
           IN  /\ v.agent_count = Len(calls[c].tasks)
               /\ v.confidence.den = v.agent_count
               /\ v.confidence.num = Cardinality(C3Passing(c))
               /\ 0 <= v.confidence.num /\ v.confidence.num <= v.confidence.den
               /\ v.verified <=> (v.confidence.num = v.confidence.den)

C3_Witness ==
    /\ calls["direct"].state = "done"
    /\ calls["direct"].verdict.agent_count = 2
    /\ calls["direct"].verdict.confidence = [num |-> 1, den |-> 2]
    /\ ~calls["direct"].verdict.verified

\* C4: a verify_change call in which a checker's check raised still returns a
\* verdict: it does not end with the error, and once every task has ended the
\* raising checker is recorded with overall = false.
C4_RaisingCheckerIsIsolated ==
    \A c \in CallIds :
        (\E i \in 1..Len(calls[c].results) : calls[c].results[i].status = "raised")
        => /\ calls[c].state # "raised"
           /\ (\A i \in 1..Len(calls[c].results) :
                   calls[c].results[i].status # "pending")
              => calls[c].state = "done"

\* the rules of the selector in their declaration order, as the claim gives them
C5Rules ==
    << [key |-> S_connection, pattern |-> "connection_retry"],
       [key |-> S_timeout, pattern |-> "circuit_breaker"],
       [key |-> S_rate_limit, pattern |-> "rate_limiter"],
       [key |-> S_service_unavailable, pattern |-> "fallback"],
       [key |-> S_cache_miss, pattern |-> "cache_recovery"] >>

C5Hits(s) == { i \in 1..Len(C5Rules) : IsSubstring(C5Rules[i].key, Lower(s)) }

C5Expected(s) ==
    IF C5Hits(s) = {} THEN None
    ELSE C5Rules[CHOOSE i \in C5Hits(s) : \A j \in C5Hits(s) : i <= j].pattern

\* C5: the selector returns the pattern of the first rule, in declaration
\* order, whose key is a substring of the lower-cased error_type, none when no
\* rule matches; an error_type with both "connection" and "timeout" gives
\* connection_retry, in any letter case.
C5_SelectorFirstMatch ==
    (selOutput # "<unset>" /\ selInput.error_type.k = "str")
    => LET s == selInput.error_type.v
       IN  /\ selOutput = C5Expected(s)
           /\ (IsSubstring(S_connection, Lower(s)) /\ IsSubstring(S_timeout, Lower(s)))
              => selOutput = "connection_retry"

C5_Witness ==
    /\ selInput.error_type = Str(Upper(S_timeout \o <<"_">> \o S_connection))
    /\ selOutput = "connection_retry"

\* what the selector returns for a context, as C5 states it
C6Selected(context) ==
    IF context.error_type.k = "absent" THEN None
    ELSE C5Expected(context.error_type.v)

\* C6: a returned trace has a self_healing step iff the selector returns a
\* pattern for context["error_type"]; the step records that pattern and the
\* context's target, "system" when there is none; rate_limit_exceeded gives
\* rate_limiter and unknown_thing gives no step.
C6_SelfHealingMatchesSelector ==
    pc = "returned"
    => LET ctx == failure.context
           steps == result.steps
           at == { i \in 1..Len(steps) : steps[i].step = "self_healing" }
       IN  /\ result.failure.context = ctx
           /\ (at # {}) <=> (C6Selected(ctx) # None)
           /\ \A i \in at :
                 /\ steps[i].result.pattern = C6Selected(ctx)
                 /\ steps[i].result.target
                      = (IF ctx.target = "<absent>" THEN "system" ELSE ctx.target)
           /\ ctx.error_type = Str(S_unknown_thing) => at = {}
           /\ ctx.error_type = Str(S_rate_limit_exceeded)
              => \E i \in at : steps[i].result.pattern = "rate_limiter"

C6_Witness ==
    /\ pc = "returned"
    /\ failure.context.error_type = Str(S_rate_limit_exceeded)
    /\ failure.context.target = "mcp_server"
    /\ \E i \in 1..Len(result.steps) :
          /\ result.steps[i].step = "self_healing"
          /\ result.steps[i].result.pattern = "rate_limiter"
          /\ result.steps[i].result.target = "mcp_server"

\* whether the diagnosis of a returned trace carries a change descriptor
C7Produced(steps) == steps[1].result.code_changes.k = "dict"

\* C7: a returned trace has the verify step iff Diagnosis produced a change
\* descriptor; with no change descriptor and no matching pattern the trace is
\* exactly [debug, regression_test, evaluation].
C7_VerifyIffChange ==
    pc = "returned"
    => /\ HasStep(result.steps, "verify") <=> C7Produced(result.steps)
       /\ (~C7Produced(result.steps) /\ C6Selected(failure.context) = None)
          => StepNames(result.steps) = <<"debug", "regression_test", "evaluation">>

C7_Witness ==
    /\ pc = "returned"
    /\ ~C7Produced(result.steps)
    /\ C6Selected(failure.context) = None
    /\ StepNames(result.steps) = <<"debug", "regression_test", "evaluation">>

\* the step names a run on a context returns with the debugger bound
C8Names(context) ==
    <<"debug">>
    \o (IF debuggerImpl \in {"MCPDebugger", "typed_changes"} THEN <<"verify">> ELSE <<>>)
    \o <<"regression_test">>
    \o (IF C6Selected(context) # None THEN <<"self_healing">> ELSE <<>>)
    \o <<"evaluation">>

\* C8: two returned runs on failures with the same context have the same step
\* names and the same pattern, whatever the earlier run left behind: both are
\* a function of the context alone, on a fresh and on a used protocol object.
\* The record of returned runs grows only when a run returns, so it is
\* examined there.
C8_SameContextSameSteps ==
    pc = "returned"
    => /\ \A h1 \in history, h2 \in history :
             h1.context = h2.context
             => (h1.names = h2.names /\ h1.pattern = h2.pattern)
       /\ \A h \in history :
             h.names = C8Names(h.context) /\ h.pattern = C6Selected(h.context)

\* a second run returned for the Failure object the first run resolved
C8_Witness ==
    /\ pc = "returned"
    /\ Len(eval_results) = 2
    /\ Cardinality(history) = 1
    /\ result.failure.resolved
    /\ Len(fixes) = 2
    /\ PatternOf(result.steps) = "connection_retry"

\* Diagnosis raises for the failure of the current run
C9DiagnosisRaises ==
    \/ debuggerImpl = "raises"
    \/ /\ debuggerImpl = "MCPDebugger"
       /\ failure.type = "mcp_error"
       /\ failure.context.traceback.k = "other"

\* C9: when Diagnosis raises, the run ends with that error, no trace is
\* returned and no later stage runs: nothing but debug_failure was called and
\* no history has grown.
C9_DiagnosisFailureAborts ==
    (pc \notin {"idle", "debug"} /\ C9DiagnosisRaises)
    => /\ pc = "raised"
       /\ error.stage = "debug"
       /\ result.steps = <<>>
       /\ stageLog = <<"debug">>
       /\ Lengths = entry
       /\ calls["pipeline"].state = "idle"

C9_Witness ==
    /\ pc = "raised"
    /\ error.stage = "debug"
    /\ debuggerImpl = "MCPDebugger"
    /\ runs = 2
    /\ Len(generated_tests) = 1

C11_OptionalStageErrorsCaptured ==
    pc = "raised" => error.stage \notin {"verify", "self_healing"}

\* the six names of the catalog
C12Catalog ==
    {"connection_retry", "circuit_breaker", "fallback", "cache_recovery",
     "rate_limiter", "health_check"}

\* C12: apply_pattern with a name outside the catalog fails with the
\* unknown-pattern error, awaits no strategy and leaves applied_patterns as it
\* was; with one of the six catalog names it returns, having awaited that
\* name's strategy and appended its application.
C12_UnknownPatternFails ==
    apply_call.outcome # "none"
    => IF apply_call.pattern_name \in C12Catalog
       THEN /\ apply_call.outcome = "returned"
            /\ apply_call.invoked = apply_call.pattern_name
            /\ Len(applied_patterns) = Len(apply_call.before) + 1
            /\ SubSeq(applied_patterns, 1, Len(apply_call.before)) = apply_call.before
            /\ applied_patterns[Len(applied_patterns)].pattern = apply_call.pattern_name
            /\ applied_patterns[Len(applied_patterns)].target = apply_call.target
       ELSE /\ apply_call.outcome = "ValueError"
            /\ apply_call.invoked = None
            /\ applied_patterns = apply_call.before

\* an unknown name refused after a pattern had been applied
C12_Witness ==
    /\ apply_call.outcome = "ValueError"
    /\ apply_call.pattern_name = "Connection_Retry"
    /\ Len(applied_patterns) = 1

\* a capability tag of the agent is a substring of the change's kind
C13Applies(agent, change) ==
    \E n \in 1..Len(agent.capabilities) :
        IsSubstring(agent.capabilities[n],
                    IF change.type.k = "str" THEN change.type.v ELSE <<>>)

\* the ids of the applicable agents of a registry, in registration order
RECURSIVE C13Ids(_, _, _)
C13Ids(registry, change, i) ==
    IF i > Len(registry) THEN <<>>
    ELSE (IF C13Applies(registry[i], change) THEN <<registry[i].id>> ELSE <<>>)
         \o C13Ids(registry, change, i + 1)

\* C13: the checkers that take part in a verify_change call are those of the
\* registry with a capability tag that is a case-sensitive substring of the
\* change's kind, and agent_count is their number; with the default registry
\* a code_security change selects code_agent and security_agent and, every
\* check passing, is verified with confidence 1 and no issues.
C13_ApplicableBySubstring ==
    \A c \in CallIds :
        calls[c].state # "idle"
        => LET ids == C13Ids(calls[c].registry, calls[c].change, 1)
           IN  /\ [i \in 1..Len(calls[c].tasks) |-> calls[c].tasks[i].agent_id] = ids
               /\ calls[c].state = "done" => calls[c].verdict.agent_count = Len(ids)
               /\ (calls[c].registry = DefaultAgents
                   /\ calls[c].change.type = Str(S_code_security))
                  => /\ ids = <<"code_agent", "security_agent">>
                     /\ (calls[c].state = "done" /\ checkImpl = BuiltinChecks)
                        => /\ calls[c].verdict.verified
                           /\ calls[c].verdict.confidence.num
                                = calls[c].verdict.confidence.den
                           /\ calls[c].verdict.issues = <<>>

C13_Witness ==
    /\ calls["direct"].state = "done"
    /\ calls["direct"].registry = DefaultAgents
    /\ calls["direct"].change.type = Str(S_code_security)
    /\ calls["direct"].verdict.agent_count = 2
    /\ calls["direct"].verdict.verified
    /\ calls["direct"].verdict.confidence = [num |-> 2, den |-> 2]

\* the issues of one task: its failing checks in the order it declares them
C14TaskIssues(task) ==
    LET failing == SelectSeq(task.checks, LAMBDA ch : checkImpl[ch] = "fail")
    IN  [j \in 1..Len(failing) |->
            [agent |-> task.agent_id, check |-> failing[j], details |-> "failed"]]

\* the issues of the tasks from the i-th on, in registration order
RECURSIVE C14Issues(_, _)
C14Issues(tasks, i) ==
    IF i > Len(tasks) THEN <<>>
    ELSE C14TaskIssues(tasks[i]) \o C14Issues(tasks, i + 1)

\* the tasks none of whose checks fails
C14Passing(tasks) ==
    { i \in 1..Len(tasks) :
        \A j \in 1..Len(tasks[i].checks) : checkImpl[tasks[i].checks[j]] = "pass" }

\* C14: the verdict of a verify_change call is determined by its tasks and
\* their checks, whatever the order in which the checker tasks completed:
\* issues are listed by registration order and then by check-declaration
\* order, and verified, agent_count and confidence do not depend on the order.
C14_VerdictIgnoresCompletionOrder ==
    \A c \in CallIds :
        calls[c].state = "done"
        => LET tasks == calls[c].tasks
               v == calls[c].verdict
           IN  /\ v.issues = C14Issues(tasks, 1)
               /\ v.agent_count = Len(tasks)
               /\ v.verified = (C14Passing(tasks) = 1..Len(tasks))
               /\ Len(tasks) > 0
                  => v.confidence = [num |-> Cardinality(C14Passing(tasks)),
                                     den |-> Len(tasks)]
               /\ \A i \in 1..Len(tasks) :
                      calls[c].results[i].agent_id = tasks[i].agent_id

\* the second checker completed before the first, and both report an issue
C14_Witness ==
    /\ calls["direct"].state = "done"
    /\ calls["direct"].order = <<2, 1>>
    /\ Len(calls["direct"].verdict.issues) = 2
    /\ calls["direct"].verdict.issues[1].agent = "code_agent"
    /\ calls["direct"].verdict.issues[2].agent = "security_agent"

\* C15: a handle_failure run cancelled while its checker tasks are in flight
\* leaves none of them able to run, ends with the cancellation and not with a
\* trace, and has called none of the later stages: nothing but the debugger
\* and the verifier was called, no verdict was recorded and no history of the
\* regression, healing or evaluation stage has grown.  Only the diagnosis
\* step is in the abandoned local trace.
C15_CancelStopsCheckersAndRun ==
    pc = "cancelled"
    => /\ \A i \in 1..Len(calls["pipeline"].results) :
              calls["pipeline"].results[i].status # "pending"
       /\ ~ENABLED PipelineVerifier
       /\ error.kind = "CancelledError"
       /\ StepNames(result.steps) = <<"debug">>
       /\ stageLog = <<"debug", "verify">>
       /\ Len(verification_results) = entry.verification_results
       /\ Len(generated_tests) = entry.generated_tests
       /\ Len(applied_patterns) = entry.applied_patterns
       /\ Len(eval_results) = entry.eval_results

\* cancelled after one checker completed and before the other ran
C15_Witness ==
    /\ pc = "cancelled"
    /\ \E i \in 1..Len(calls["pipeline"].results) :
          calls["pipeline"].results[i].status = "cancelled"
    /\ \E i \in 1..Len(calls["pipeline"].results) :
          calls["pipeline"].results[i].status = "done"

\* C16: a handle_failure run never waits forever on a collaborator: while a
\* run is under way some step of it can be taken (a stage returns, raises or
\* times out), so every run goes on to its end.
C16_NoRunBlocksForever ==
    pc \in {"debug", "verify", "verifying", "regression", "healing", "evaluation"}
    => ENABLED Next

\* a verify_change call by a caller begins in this step
C17Starts == directCalls' = directCalls + 1

\* C17: a verify_change call works on the checkers registered when it began.
\* Its tasks, and the agent_count and results it ends with, are those of the
\* registry of that moment, whatever is registered while its checker tasks
\* are suspended; and a call that begins takes every agent registered by then.
C17_RegistrySnapshotPerCall ==
    /\ [](\A c \in CallIds :
            calls[c].state # "idle"
            => LET ids == C13Ids(calls[c].registry, calls[c].change, 1)
               IN  /\ Len(calls[c].tasks) = Len(ids)
                   /\ \A i \in 1..Len(ids) : calls[c].results[i].agent_id = ids[i]
                   /\ calls[c].state = "done"
                      => /\ calls[c].verdict.agent_count = Len(ids)
                         /\ Len(calls[c].results) = Len(ids))
    /\ [][C17Starts
           => /\ calls'["direct"].registry = agents
              /\ [i \in 1..Len(calls'["direct"].tasks) |->
                     calls'["direct"].tasks[i].agent_id]
                   = C13Ids(agents, calls'["direct"].change, 1)]_vars
    /\ [][(calls["direct"].state = "gather" /\ agents' # agents)
           => calls'["direct"] = calls["direct"]]_vars

\* an applicable agent was registered while the call was in flight, and the
\* call ended with the count of the registry it began with
C17_Witness ==
    /\ calls["direct"].state = "done"
    /\ Len(agents) > Len(calls["direct"].registry)
    /\ C13Applies(agents[Len(agents)], calls["direct"].change)
    /\ calls["direct"].verdict.agent_count
         = Len(C13Ids(calls["direct"].registry, calls["direct"].change, 1))
    /\ calls["direct"].verdict.agent_count
         < Len(C13Ids(agents, calls["direct"].change, 1))

\* C18: the registry never holds two checkers with the same id (registering
\* a conflicting id is refused), so no verdict counts one id twice.
C18_NoDuplicateCheckerIds ==
    /\ \A i, j \in 1..Len(agents) : agents[i].id = agents[j].id => i = j
    /\ \A c \in CallIds :
          \A i, j \in 1..Len(calls[c].results) :
              calls[c].results[i].agent_id = calls[c].results[j].agent_id => i = j

\* a Failure, or a to_dict snapshot of one, that is resolved has a resolution
C19Holds(f) == f.resolved => f.resolution # None

C20_OnlyDiagnosisModifiesFailure ==
    /\ [][(pc # "debug" /\ pc' # "debug") => failure' = failure]_vars
    /\ [][pc = "debug"
           => (failure'.type = failure.type /\ failure'.context = failure.context)]_vars

\* a run that Diagnosis resolved went through all four later stages
C20_Witness ==
    /\ pc = "returned"
    /\ ~result.failure.resolved
    /\ failure.resolved
    /\ StepNames(result.steps)
         = <<"debug", "verify", "regression_test", "self_healing", "evaluation">>

\* C21: every evaluation report is arithmetically consistent: per suite,
\* total_tests is the number of cases run, passed the number that passed,
\* passed + failed = total_tests and pass_rate = passed / total_tests (0 for a
\* suite without cases, a never-created name included); the summary totals
\* are the sums over the suites run and overall_pass_rate is
\* total_passed / total_tests, or 0 when total_tests = 0.
C21IsRatio(rate, n, d) ==
    IF d = 0 THEN rate.num = 0 /\ rate.den # 0
    ELSE rate.den # 0 /\ rate.num * d = n * rate.den

RECURSIVE C21Sum(_, _)
C21Sum(s, i) == IF i = 0 THEN 0 ELSE s[i] + C21Sum(s, i - 1)

C21SuiteOk(s) ==
    /\ s.total_tests = Len(s.test_results)
    /\ s.passed = Cardinality({i \in 1..Len(s.test_results) : s.test_results[i].passed})
    /\ s.passed + s.failed = s.total_tests
    /\ C21IsRatio(s.pass_rate, s.passed, s.total_tests)

C21_ReportNumbers ==
    \A k \in 1..Len(eval_results) :
        LET report == eval_results[k]
            n == Len(report.suites)
            tests == [i \in 1..n |-> report.suites[i].total_tests]
            passed == [i \in 1..n |-> report.suites[i].passed]
            failed == [i \in 1..n |-> report.suites[i].failed]
        IN  /\ \A i \in 1..n : C21SuiteOk(report.suites[i])
            /\ report.summary.total_suites = n
            /\ report.summary.total_tests = C21Sum(tests, n)
            /\ report.summary.total_passed = C21Sum(passed, n)
            /\ report.summary.total_failed = C21Sum(failed, n)
            /\ C21IsRatio(report.summary.overall_pass_rate,
                          report.summary.total_passed, report.summary.total_tests)

\* one report over two suites, an empty one and one with a pass and a failure,
\* and one report for a name that was never created
C21_Witness ==
    /\ Len(eval_results) = 2
    /\ Len(eval_results[1].suites) = 2
    /\ \E i, j \in 1..2 :
          /\ eval_results[1].suites[i].total_tests = 0
          /\ eval_results[1].suites[j].passed = 1
          /\ eval_results[1].suites[j].failed = 1
    /\ eval_results[2].suites[1].suite_name = "never_created"
    /\ eval_results[2].summary.total_tests = 0
    /\ ~HasSuite(test_suites, "never_created")

\* C22: the circuit breaker makes only the standard transitions: it is OPEN
\* once failure_threshold consecutive calls have failed (a success resets the
\* count to 0 and closes it), an OPEN breaker becomes HALF_OPEN only by a call
\* made more than recovery_timeout after the last failure, a HALF_OPEN breaker
\* becomes CLOSED only by a successful call, and no other change of state is
\* ever made.
C22Standard(m) ==
    \/ /\ m.from \in {"closed", "half_open"} /\ m.to = "open"
       /\ m.by = "failure" /\ m.count >= breaker.failure_threshold
    \/ /\ m.from = "open" /\ m.to = "half_open"
       /\ m.by = "call" /\ m.waited
    \/ /\ m.from = "half_open" /\ m.to = "closed"
       /\ m.by = "success" /\ m.count = 0

C22_StandardTransitions ==
    /\ breaker.state = "closed" => breaker.failure_count < breaker.failure_threshold
    /\ breaker.last = "success" =>
           breaker.failure_count = 0 /\ breaker.state = "closed"
    /\ \A m \in breaker.moves : C22Standard(m)

\* C23: once a check_health call has ended, check_results holds the three
\* sub-checks connectivity, performance and resources, in that order, a
\* sub-check that raised being recorded as unhealthy with its error, and
\* is_healthy is true exactly when all three reported healthy; the wrapper
\* invokes the target only when it read is_healthy as true.
C23_HealthCheckAggregates ==
    /\ health.last_check # Never =>
          /\ [i \in 1..Len(health.check_results) |-> health.check_results[i].name]
                 = << "connectivity", "performance", "resources" >>
          /\ \A i \in 1..3 :
                 health.check_results[i].error => ~health.check_results[i].healthy
          /\ health.is_healthy <=> \A i \in 1..3 : health.check_results[i].healthy
    /\ health.call.outcome = "invoked" => health.call.is_healthy
    /\ health.call.outcome = "Service unhealthy" => ~health.call.is_healthy

\* a check_health has ended in which the first sub-check raised and the other
\* two reported healthy, and the wrapper has then refused a call
C23_Witness ==
    /\ health.last_check # Never
    /\ health.check_results[1].error
    /\ health.check_results[2].healthy /\ health.check_results[3].healthy
    /\ ~health.is_healthy
    /\ health.call.outcome = "Service unhealthy"

\* C24: get_or_compute returns an entry younger than the ttl without calling
\* compute_func and calls compute_func only when the key has no such entry;
\* a value computed is stored with the time of its computation and returned;
\* when the computation fails, the key's entry, expired or not, is returned
\* and the dict is left as it was, and the error is re-raised only when the
\* key has no entry.
C24_StaleReadOnError ==
    LET last == cache.last
        young == /\ last.entry # NoEntry
                 /\ last.at - last.entry[1].timestamp < cache.ttl
    IN  /\ last.outcome = "cached" =>
               young /\ last.value = last.entry[1].value /\ last.kept
        /\ last.outcome = "computing" => ~young /\ last.kept
        /\ last.outcome = "computed" =>
               \* the entry stored, unless invalidate has dropped it since
               cache.cache[last.key] \in {Entry(last.value, last.at), NoEntry}
        /\ last.outcome = "stale" =>
               last.entry # NoEntry /\ last.value = last.entry[1].value /\ last.kept
        /\ last.outcome = "raised" => last.entry = NoEntry /\ last.kept

\* a computation has failed for a key whose entry is older than the ttl, and
\* the expired value was returned
C24_Witness ==
    /\ cache.last.outcome = "stale"
    /\ cache.last.at - cache.last.entry[1].timestamp > cache.ttl
    /\ cache.cache[cache.last.key] = cache.last.entry

\* C25: in the trace of every returned run for an MCP_ERROR failure the first
\* entry is the debug step with a solution and the fourth entry is the
\* self_healing step with a pattern name.
C25_DemoIndices ==
    (pc = "returned" /\ failure.type = "mcp_error") =>
        /\ Len(result.steps) >= 4
        /\ result.steps[1].step = "debug"
        /\ result.steps[1].result.solution # ""
        /\ result.steps[4].step = "self_healing"
        /\ result.steps[4].result.pattern \in patterns

\* C26: the test generated at the regression stage of a run documents the
\* resolution that Diagnosis set, for every failure kind: the resolution it
\* embeds is the solution of a fix Diagnosis produced, never the placeholder
\* 'No resolution yet'.
C26_RegressionDocumentsResolution ==
    \A i \in 1..Len(generated_tests) :
        /\ generated_tests[i].resolution # "No resolution yet"
        /\ \/ generated_tests[i].resolution \in {fixes[k].solution : k \in 1..Len(fixes)}
           \/ generated_tests[i].failure = to_dict(ExampleResolvedFailure)

\* C27: the check list of every selected checker is determined by its
\* capability set alone: it is [syntax, style, complexity] if it holds code,
\* then [vulnerabilities, permissions] if it holds security, then
\* [efficiency, memory_usage] if it holds performance, in this order whatever
\* the order of its capabilities; other capabilities add nothing and the
\* change plays no part.
C27Expected(capabilities) ==
    LET held == {capabilities[i] : i \in 1..Len(capabilities)}
        code == IF S_code \in held THEN <<"syntax", "style", "complexity">> ELSE <<>>
        security == IF S_security \in held
                    THEN <<"vulnerabilities", "permissions">> ELSE <<>>
        performance == IF S_performance \in held
                       THEN <<"efficiency", "memory_usage">> ELSE <<>>
    IN  code \o security \o performance

\* the expected check lists of the agents of a registry that can verify a
\* change, in registry order
RECURSIVE C27Lists(_, _, _)
C27Lists(registry, change, i) ==
    IF i > Len(registry) THEN <<>>
    ELSE (IF _can_verify(registry[i], change)
          THEN << C27Expected(registry[i].capabilities) >> ELSE <<>>)
         \o C27Lists(registry, change, i + 1)

C27_ChecksFromCapabilities ==
    \A c \in CallIds :
        calls[c].state # "idle" =>
            [i \in 1..Len(calls[c].tasks) |-> calls[c].tasks[i].checks]
                = C27Lists(calls[c].registry, calls[c].change, 1)

\* a checker that lists performance, documentation and code was selected and
\* got the code checks before the performance checks
C27_Witness ==
    \E i \in 1..Len(calls["direct"].tasks) :
        /\ calls["direct"].tasks[i].agent_id = "full_agent"
        /\ calls["direct"].tasks[i].checks =
               <<"syntax", "style", "complexity", "efficiency", "memory_usage">>

\* C28: in every verdict a selected checker with an empty check list has run
\* no check and has overall = true; it counts in agent_count and among the
\* passing checkers of confidence; a call whose selected checkers all have
\* empty check lists is verified with confidence 1.
C28Empty(c) == {i \in 1..Len(calls[c].tasks) : calls[c].tasks[i].checks = <<>>}

C28Passing(c) ==
    {i \in 1..Len(calls[c].tasks) :
        /\ calls[c].tasks[i].checks # <<>>
        /\ \A j \in 1..Len(calls[c].results[i].results) :
               calls[c].results[i].results[j].passed}

C28_EmptyCheckListPasses ==
    \A c \in CallIds :
        calls[c].state = "done" =>
            LET v == calls[c].verdict
            IN  /\ \A i \in C28Empty(c) :
                       /\ calls[c].results[i].results = <<>>
                       /\ calls[c].results[i].overall
                /\ v.agent_count = Len(calls[c].tasks)
                /\ v.confidence.num = Cardinality(C28Empty(c)) + Cardinality(C28Passing(c))
                /\ (C28Empty(c) = 1..Len(calls[c].tasks) /\ Len(calls[c].tasks) > 0)
                       => (v.verified /\ v.confidence.num = v.confidence.den)

\* a change was verified with confidence 1 by one checker that ran no check
C28_Witness ==
    /\ calls["direct"].state = "done"
    /\ Len(calls["direct"].tasks) = 1
    /\ calls["direct"].tasks[1].checks = <<>>
    /\ calls["direct"].verdict.verified
    /\ calls["direct"].verdict.agent_count = 1
    /\ calls["direct"].verdict.confidence = [num |-> 1, den |-> 1]

\* C29: the evaluation step of every returned run reports one suite, named
\* fix_<failure kind>, with one test case that expects {success: True} for the
\* failure's context; the case passes exactly when the context's
\* expected_result is {success: True}; a failing case gives exactly one
\* recommendation, for that suite, and a passing case none.  The report is the
\* one recorded last by the evaluator.
C29_SingleSynthesizedTest ==
    pc = "returned" =>
        LET last == result.steps[Len(result.steps)]
            report == last.result
            suite == report.suites[1]
            passes == failure.context.expected_result = "{success: True}"
        IN  /\ last.step = "evaluation"
            /\ report = eval_results[Len(eval_results)]
            /\ Len(report.suites) = 1
            /\ report.summary.total_suites = 1
            /\ report.summary.total_tests = 1
            /\ suite.suite_name = "fix_" \o failure.type
            /\ suite.total_tests = 1
            /\ Len(suite.test_results) = 1
            /\ suite.test_results[1].input_data = failure.context
            /\ suite.test_results[1].expected_output = "{success: True}"
            /\ suite.test_results[1].passed <=> passes
            /\ report.summary.total_passed = (IF passes THEN 1 ELSE 0)
            /\ report.recommendations =
                   (IF passes THEN <<>>
                    ELSE << [suite |-> "fix_" \o failure.type, failing |-> 1] >>)

\* a second run for the same kind has returned with a failing case and one
\* recommendation, the suite created by the first run having been replaced
C29_Witness ==
    /\ pc = "returned"
    /\ runs = 2
    /\ Len(test_suites) = 1
    /\ Len(eval_results) = 2
    /\ eval_results[1].summary.total_passed = 0
    /\ Len(eval_results[2].recommendations) = 1
    /\ eval_results[2].summary.total_tests = 1

\* C30: a call of the retry wrapper awaits the target at most max_attempts
\* times; it stops at the first result and returns it; every attempt before
\* the last ended with ConnectionError or TimeoutError; when it raises, it
\* raises the error of its last attempt, which is either another kind of
\* error or the max_attempts-th failure; it sleeps once between two attempts
\* and never longer than max_delay.
C30_BoundedRetry ==
    LET n == Len(retry.attempts)
    IN  /\ n <= retry.max_attempts
        /\ \A i \in 1..(n - 1) : Retriable(retry.attempts[i])
        /\ retry.state = "awaiting" => n < retry.max_attempts /\ Len(retry.delays) = n
        /\ retry.state = "sleeping" =>
               n < retry.max_attempts /\ Len(retry.delays) = n
        /\ (retry.state = "returned" /\ n > 0) =>
               /\ retry.outcome = "result"
               /\ retry.attempts[n] = "result"
               /\ Len(retry.delays) = n - 1
        /\ retry.state = "raised" =>
               /\ n > 0
               /\ retry.outcome = retry.attempts[n]
               /\ retry.outcome # "result"
               /\ Retriable(retry.outcome) => n = retry.max_attempts
               /\ Len(retry.delays) = n - 1
        /\ \A i \in 1..Len(retry.delays) : retry.delays[i] <= retry.max_delay

\* a call made three attempts, slept twice, the second time for the capped
\* delay, and raised the error of the third attempt
C30_Witness ==
    /\ retry.state = "raised"
    /\ retry.max_attempts = 3
    /\ Len(retry.attempts) = 3
    /\ retry.outcome = "TimeoutError"
    /\ retry.attempts[1] = "ConnectionError"
    /\ retry.delays = << 3, 3 >>
    /\ retry.max_delay = 3

(***************************************************************************)
(* C31: in a RateLimiter with max_calls >= 1, the recorded calls never      *)
(* number more than max_calls; of the acquire calls that returned, any      *)
(* max_calls + 1 recorded times span more than time_window seconds; a call  *)
(* that found the quota full returns only at a time when the oldest call    *)
(* recorded then is more than time_window seconds old; and, as time passes, *)
(* every call that went to sleep returns.                                   *)
(***************************************************************************)
C31Safe ==
    /\ Len(limiter.calls) <= limiter.max_calls
    /\ \A i \in 1..Len(limiter.granted) :
          LET j == i + limiter.max_calls
              g == limiter.granted[i]
          IN  /\ j <= Len(limiter.granted)
                    => limiter.granted[j].at - g.at > limiter.time_window
              /\ g.blocked_by # Never
                    => g.at - g.blocked_by[1] > limiter.time_window

C31_QuotaAndWindow ==
    /\ []C31Safe
    /\ (limiter.sleeping # <<>>) ~> (Len(limiter.granted) = limiter.acquires)

\* the quota is full again after a call that had found it full has returned,
\* and another call is asleep
C31_Witness ==
    /\ limiter.max_calls >= 1
    /\ Len(limiter.calls) = limiter.max_calls
    /\ Len(limiter.granted) > limiter.max_calls
    /\ \E i \in 1..Len(limiter.granted) : limiter.granted[i].blocked_by # Never
    /\ limiter.sleeping # <<>>

(***************************************************************************)
(* C32: a call made while the breaker is OPEN and no more than              *)
(* recovery_timeout has passed since the last failure is rejected: the      *)
(* target is not invoked, and failure_count, last_failure_time and state    *)
(* stay as they were.                                                       *)
(***************************************************************************)
C32Waiting ==
    /\ breaker.state = "open"
    /\ breaker.last_failure_time # Never
    /\ now - breaker.last_failure_time[1] <= breaker.recovery_timeout

C32_OpenRejectsUnchanged ==
    [][ (C32Waiting /\ BreakerCallStart)
           => /\ breaker'.last = "rejected"
              /\ breaker'.awaiting = breaker.awaiting
              /\ breaker'.failure_count = breaker.failure_count
              /\ breaker'.last_failure_time = breaker.last_failure_time
              /\ breaker'.state = breaker.state
              /\ breaker'.moves = breaker.moves ]_vars

\* a call has just been rejected, exactly recovery_timeout after the failure
\* that opened the breaker
C32_Witness ==
    /\ C32Waiting
    /\ breaker.last = "rejected"
    /\ now - breaker.last_failure_time[1] = breaker.recovery_timeout
    /\ breaker.failure_count >= breaker.failure_threshold

(***************************************************************************)
(* C33: when a call made while the breaker is HALF_OPEN raises the expected *)
(* exception, failure_count is already at or above failure_threshold, the   *)
(* breaker is OPEN at once and last_failure_time is the time of that        *)
(* failure; no call that raises leaves the breaker HALF_OPEN.               *)
(***************************************************************************)
C33_FailedTrialReopens ==
    [][ \A admitted \in {"closed", "half_open"} :
           BreakerCallEnd(admitted, "raises")
              => /\ breaker'.state # "half_open"
                 /\ admitted = "half_open"
                       => /\ breaker.failure_count >= breaker.failure_threshold
                          /\ breaker'.state = "open"
                          /\ breaker'.last_failure_time = At(now) ]_vars

(***************************************************************************)
(* C34: with the built-in MCPDebugger, the verdict recorded in the verify   *)
(* step of a handle_failure run has agent_count = 0 and confidence = 0: the *)
(* change handed to verify_change is the code_changes of the diagnosis,     *)
(* which has no "type" entry, and no registered agent is assigned to it.    *)
(***************************************************************************)
C34_PipelineVerdictHasNoAgents ==
    debuggerImpl = "MCPDebugger"
    => \A i \in 1..Len(result.steps) :
          result.steps[i].step = "verify"
          => /\ result.steps[i].result.agent_count = 0
             /\ result.steps[i].result.confidence = [num |-> 0, den |-> 1]
             /\ calls["pipeline"].change = result.steps[1].result.code_changes
             /\ calls["pipeline"].change.type = Absent
             /\ calls["pipeline"].tasks = <<>>
             /\ \A k \in 1..Len(calls["pipeline"].registry) :
                   ~_can_verify(calls["pipeline"].registry[k], calls["pipeline"].change)

\* a run on an MCP failure returned with its verify step
C34_Witness ==
    /\ debuggerImpl = "MCPDebugger"
    /\ pc = "returned"
    /\ failure.type = "mcp_error"
    /\ Len(result.steps) >= 2
    /\ result.steps[2].step = "verify"
    /\ result.steps[2].result.agent_count = 0
    /\ Len(calls["pipeline"].registry) = 3

(***************************************************************************)
(* C35: for every kind of Failure and every context, the result that        *)
(* MCPDebugger.debug_failure returns has the entries issue and solution and *)
(* a non-empty code_changes, so every run of handle_failure that returns    *)
(* has its verify step right after the debug step.                          *)
(***************************************************************************)
C35_DiagnosisAlwaysProposesChange ==
    debuggerImpl = "MCPDebugger"
    => /\ \A i \in 1..Len(result.steps) :
             result.steps[i].step = "debug"
             => /\ {"issue", "solution", "code_changes"}
                       \subseteq DOMAIN result.steps[i].result
                /\ result.steps[i].result.code_changes.k = "dict"
                /\ result.steps[i].result = DebugResult("MCPDebugger", result.failure)
       /\ pc \in {"regression", "healing", "evaluation", "returned"}
             => /\ Len(result.steps) >= 2
                /\ result.steps[1].step = "debug"
                /\ result.steps[2].step = "verify"

\* a run on a failure that is none of the kinds debug_failure tells apart
\* returned with its verify step
C35_Witness ==
    /\ debuggerImpl = "MCPDebugger"
    /\ pc = "returned"
    /\ failure.type \in {"runtime_error", "validation_error"}
    /\ result.steps[1].result = _generic_fix(failure)
    /\ result.steps[2].step = "verify"

(***************************************************************************)
(* C36: whatever error_type the selector is given, a pattern name it        *)
(* returns is one of connection_retry, circuit_breaker, rate_limiter,       *)
(* fallback and cache_recovery, passes the test apply_pattern makes on the  *)
(* catalog, and is not health_check.                                        *)
(***************************************************************************)
C36_SelectedPatternsAreCatalogued ==
    selOutput \notin {"<unset>", "<raised>", None}
    => /\ selOutput \in {"connection_retry", "circuit_breaker", "rate_limiter",
                         "fallback", "cache_recovery"}
       /\ KnownPattern(selOutput)
       /\ selOutput # "health_check"

\* the selector returned a pattern for an error_type in upper case that
\* holds two keys of pattern_map
C36_Witness ==
    /\ selInput.error_type = Str(Upper(S_rate_limit \o <<"_">> \o S_timeout))
    /\ selOutput = "circuit_breaker"

(***************************************************************************)
(* C37: when MCPDebugger.debug_failure returns for a failure of kind        *)
(* MCP_ERROR, the failure is resolved, its resolution is the solution of    *)
(* the returned fix, and that fix is the one element appended to fixes;     *)
(* for a failure of any other kind, and when debug_failure raises, the      *)
(* failure and the fixes list are as they were.                             *)
(***************************************************************************)
C37_OnlyMcpErrorIsResolved ==
    [][ (debuggerImpl = "MCPDebugger" /\ DebugStage)
           => IF pc' = "verify" /\ failure.type = "mcp_error"
              THEN /\ failure'.resolved
                   /\ failure'.resolution = result'.steps[1].result.solution
                   /\ failure' = [failure EXCEPT !.resolved = failure'.resolved,
                                                 !.resolution = failure'.resolution]
                   /\ fixes' = Append(fixes, result'.steps[1].result)
              ELSE /\ failure' = failure
                   /\ fixes' = fixes ]_vars

\* diagnosis has just resolved an MCP failure handed in unresolved, in a run
\* that follows one which left fixes empty
C37_Witness ==
    /\ debuggerImpl = "MCPDebugger"
    /\ pc = "verify"
    /\ runs = 2
    /\ failure.type = "mcp_error"
    /\ failure.resolved
    /\ failure.resolution = result.steps[1].result.solution
    /\ ~result.failure.resolved
    /\ fixes = << result.steps[1].result >>

(***************************************************************************)
(* C38: the "failure" record of handle_failure's result holds the resolved  *)
(* and resolution values the Failure had when the run started, and no later *)
(* step of the run changes the record; after a run in which diagnosis       *)
(* resolved the Failure, the record and the Failure disagree on resolved.   *)
(***************************************************************************)
C38_FailureRecordIsEntrySnapshot ==
    [][ /\ runs' # runs
           => /\ result'.failure.resolved = failure'.resolved
              /\ result'.failure.resolution = failure'.resolution
              /\ result'.failure = to_dict(failure')
        /\ runs' = runs
           => result'.failure = result.failure ]_vars

\* a run returned with the Failure resolved and the record still unresolved
C38_Witness ==
    /\ pc = "returned"
    /\ failure.resolved
    /\ failure.resolution = result.steps[1].result.solution
    /\ ~result.failure.resolved
    /\ result.failure.resolution = None

(***************************************************************************)
(* C39: of two verify_change calls in progress on one verifier at the same  *)
(* time, each works on its own results: a result a checker task has         *)
(* produced is the one that task produces when the call runs alone, a call  *)
(* that returns returns the verdict it returns alone, a call that raises    *)
(* raises alone too, and verification_results holds one record for each    *)
(* call that returned, made of that call's change, results and verdict.     *)
(***************************************************************************)
\* verify_change(change) of call c run with no other call in progress
C39Alone(c) ==
    LET tasks == AssignTasks(agents, calls[c].change, 1)
        results == [i \in 1..Len(tasks) |-> _execute_verification(checkImpl, tasks[i])]
    IN  [results |-> results,
         raises |-> \E i \in 1..Len(results) : results[i].status = "raised",
         aggregated |-> _aggregate_results(results)]

C39Record(c) ==
    [change |-> calls[c].change, results |-> C39Alone(c).results,
     aggregated |-> C39Alone(c).aggregated]

C39_OverlappingCallsIndependent ==
    /\ \A c \in CallIds :
          /\ calls[c].state # "idle"
                => /\ Len(calls[c].results) = Len(C39Alone(c).results)
                   /\ \A i \in 1..Len(calls[c].results) :
                         calls[c].results[i].status # "pending"
                         => calls[c].results[i] = C39Alone(c).results[i]
          /\ calls[c].state = "done"
                => /\ ~C39Alone(c).raises
                   /\ calls[c].verdict = C39Alone(c).aggregated
          /\ calls[c].state = "raised" => C39Alone(c).raises
    /\ LET returned == {c \in CallIds : calls[c].state = "done"}
       IN  \E f \in [1..Len(verification_results) -> returned] :
              /\ \A c \in returned : \E k \in DOMAIN f : f[k] = c
              /\ \A k \in DOMAIN f : verification_results[k] = C39Record(f[k])

\* both calls are suspended at their gather, on different changes, each with
\* a checker task that has returned and one that has not; a check fails
C39_Witness ==
    /\ calls["pipeline"].change # calls["direct"].change
    /\ \A c \in CallIds :
          /\ calls[c].state = "gather"
          /\ \E i \in 1..Len(calls[c].results) : calls[c].results[i].status = "pending"
          /\ \E i \in 1..Len(calls[c].results) :
                /\ calls[c].results[i].status = "done"
                /\ ~calls[c].results[i].overall

====
